---- MODULE Spec2Model ----
(***************************************************************************)
(* A model of fishtrap-db (src/src/index.ts): cooperating processes that   *)
(* share one directory of snapshot, shard and lock files.                  *)
(*                                                                         *)
(* The user value T is a set of change identifiers; an updater adds one    *)
(* fresh identifier, so the changes of different transactions are          *)
(* mutually disjoint.  A patch is the structural delta between two values  *)
(* (identifiers added, identifiers removed).  The merger is the three-way  *)
(* merge on sets, which is the identity on disjoint changes.               *)
(*                                                                         *)
(* Files: snaps maps a generation to the content of <appUUID>.<gen>.sdsn,  *)
(* shards maps <<uuid, gen>> to the transaction blocks of                  *)
(* <uuid>.<gen>.sdsh, locks lists the lockfiles <uuid>.<gen>.sdlk in       *)
(* ascending mtime order (a write stamps the file with the newest mtime),  *)
(* quar holds the shards renamed to *.sdbf.  tails maps the name of a file *)
(* that ends inside a block to the bytes it has of that block: a shard     *)
(* <<uuid, gen>>, or a snapshot <<"app", gen>>, which is then unreadable.  *)
(***************************************************************************)
EXTENDS Integers, Sequences, FiniteSets, TLC

Procs == {"p1", "p2"}

\* Bounds of the model.
MaxGen == 2
MaxUpd == 2
MaxQueue == 2
MaxOpens == 1
\* Suffixes 0 .. MaxTaken - 1 may be taken when a file is moved aside, and
\* the loop over the suffixes is followed up to MaxProbe instead of 2^32.
MaxTaken == 5
MaxProbe == 8
MaxWrites == 1
PayloadLength == 2
MaxBlocks == 2

None == "none"

EmptyMap == [x \in {} |-> 0]

Max(S) == CHOOSE x \in S : \A y \in S : y <= x

\* The position of a process's files in a directory listing.
DirOrder == ("p1" :> 1) @@ ("p2" :> 2)

VARIABLES
  snaps,        \* generation -> [data, ancestors]       (snapshot files)
  shards,       \* <<uuid, generation>> -> Seq(transaction) (shard files)
  locks,        \* Seq([uuid, generation]) by ascending mtime (lockfiles)
  quar,         \* shard names moved aside as broken files
  tails,        \* file name -> bytes of a cut-off block at the end of the file
  generation,   \* _generation of each instance
  sequence,     \* _sequence
  shardSize,    \* _shardSize, in blocks
  data,         \* _data
  atx,          \* settled state of _activeTx once the queue has drained
  queue,        \* the operations chained on _activeTx, oldest first
  cur,          \* the updater in flight (suspended) of the queue head
  comp,         \* the compaction attempt in progress (_performCompaction)
  res,          \* outcome of the API call that settled last
  cres,         \* outcome of the compaction attempt that returned last
  writes,       \* history: number of writes of each snapshot file
  ncalls,       \* number of update() calls made so far
  nopens,       \* number of close() calls made so far
  committed,    \* history: changes whose update() resolved
  closedP,      \* history: close() has resolved and open() was not called since
  hist,         \* history of the instance used by the properties
  arg,          \* the argument of the function whose result is checked
  ret,          \* the result of that function
  config,       \* the FishtrapConfig each instance was constructed with
  timers        \* _compactionTimer, _checkTimer and the timers no field holds

vars == <<snaps, shards, locks, quar, tails, generation, sequence, shardSize, data,
          atx, queue, cur, comp, res, cres, writes, ncalls, nopens, committed, closedP, hist,
          arg, ret, config, timers>>

fsVars == <<snaps, shards, locks, quar, tails>>
memVars == <<generation, sequence, shardSize, data>>

----------------------------------------------------------------------------
\* The user value, patches and the merger.

InitialData == {}

InitialSnapshot == [generation |-> 0, data |-> InitialData, ancestors |-> EmptyMap]

\* immer produceWithPatches: the delta between the value and the produced value.
Patches(old, new) == [add |-> new \ old, del |-> old \ new]

PatchEmpty(delta) == delta.add = {} /\ delta.del = {}

\* A faulty applyPatches that applies nothing.
ApplyNothing(d, delta) == d

\* immer applyPatches.
ApplyPatches(d, delta) == (d \ delta.del) \cup delta.add

\* A faulty merger that replaces the target by the other value.
MergerTakesOther(target, other, base) == other

\* The user's merger: what other changed relative to base is applied to target.
Merger(target, other, base) == (target \ (base \ other)) \cup (other \ base)

\* The updater of call n of instance p adds its own change.
Updater(p, n, d) == d \cup {<<p, n>>}

----------------------------------------------------------------------------
\* Files and the directory scanner.  A world w holds the directory and the
\* memory of the one instance that is acting.

World(p) ==
  [snaps |-> snaps, shards |-> shards, locks |-> locks, quar |-> quar,
   tails |-> tails, shardUUID |-> p, threw |-> FALSE,
   generation |-> generation[p], sequence |-> sequence[p],
   shardSize |-> shardSize[p], data |-> data[p]]

Min(S) == CHOOSE x \in S : \A y \in S : x <= y

\* A shard file: its complete transaction blocks, in the order they were
\* appended, and the number of bytes of one more block that was cut off (0
\* if the file ends with a complete block).  Every block has a header of
\* HeaderLength bytes and a payload of PayloadLength bytes.  junk is the set
\* of blocks whose payload does not match its hash any more, foreign the set
\* of blocks that decode to something else than a transaction of the shard.
HeaderLength == 24

BlockLength == HeaderLength + PayloadLength

FileLength(f) == Len(f.blocks) * BlockLength + f.tail

\* readDataBlock(fileData, offset) for an offset at the start of a block of
\* such a file: the scan finds the magic bytes and decodes the length field,
\* unless fewer than HeaderLength + 1 bytes are left; a block whose hash
\* does not match is skipped and the scan goes on behind it.
ReadDataBlock(f, offset) ==
  LET from == (offset \div BlockLength) + 1
      next == Min({k \in from .. Len(f.blocks) + 1 :
                     k = Len(f.blocks) + 1 \/ k \notin f.junk})
      i == (next - 1) * BlockLength
  IN IF ~(i < FileLength(f) - HeaderLength)
     THEN [offset |-> FileLength(f), length |-> 0, data |-> <<>>]
     ELSE IF FileLength(f) - i - HeaderLength - PayloadLength < 0
          THEN [offset |-> i, length |-> PayloadLength + HeaderLength,
                data |-> <<>>]
          ELSE [offset |-> i, length |-> PayloadLength + HeaderLength,
                data |-> <<f.blocks[next]>>]

\* A faulty truncation that leaves the file as it is.
TruncateNothing(f, offset) == f

\* fileData.subarray(0, offset) written to a temporary file that is renamed
\* over the shard.
TruncateFile(f, offset) ==
  [blocks |-> SubSeq(f.blocks, 1, offset \div BlockLength), tail |-> 0,
   junk |-> f.junk \cap (1 .. offset \div BlockLength),
   foreign |-> f.foreign \cap (1 .. offset \div BlockLength)]

\* The loop of _readShard from offset on: whether it returned (ok) or threw,
\* the transactions, and the file it leaves (own shards are cut back to the
\* last good block).
RECURSIVE ReadShardFrom(_, _, _, _)
ReadShardFrom(f, own, offset, transactions) ==
  IF ~(offset < FileLength(f))
  THEN [ok |-> TRUE, transactions |-> transactions, file |-> f]
  ELSE LET dataBlock == ReadDataBlock(f, offset) IN
       IF \/ dataBlock.length = 0
          \/ dataBlock.offset + dataBlock.length > FileLength(f)
       THEN IF own
            THEN IF Len(transactions) = 0
                 THEN [ok |-> FALSE, transactions |-> <<>>, file |-> f]
                 ELSE [ok |-> TRUE, transactions |-> transactions,
                       file |-> TruncateFile(f, offset)]
            ELSE [ok |-> TRUE, transactions |-> transactions, file |-> f]
       ELSE \* got block data: it is pushed when it passes the tag checks
            ReadShardFrom(f, own, dataBlock.offset + dataBlock.length,
                          IF (dataBlock.offset \div BlockLength) + 1 \in f.foreign
                          THEN transactions
                          ELSE transactions \o dataBlock.data)

\* _readShard(desc) on the file f: the transactions sorted by sequence number.
ReadShardFile(f, own) ==
  LET r == ReadShardFrom(f, own, 0, <<>>)
  IN [r EXCEPT !.transactions = SortSeq(@, LAMBDA a, b : a.sequence < b.sequence)]

TailOf(w, name) == IF name \in DOMAIN w.tails THEN w.tails[name] ELSE 0

FileOf(w, name) ==
  [blocks |-> w.shards[name], tail |-> TailOf(w, name), junk |-> {}, foreign |-> {}]

\* A faulty lookup that takes the newest lock of the generation.
LastLockAt(ls, g) ==
  LET idx == {i \in 1 .. Len(ls) : ls[i].generation = g}
  IN IF idx = {} THEN None ELSE ls[Max(idx)].uuid

\* lockFiles.find(generation === g) on the mtime-sorted list: the earliest lock.
FirstLockAt(ls, g) ==
  LET idx == {i \in 1 .. Len(ls) : ls[i].generation = g}
  IN IF idx = {} THEN None ELSE ls[Min(idx)].uuid

\* The lockfiles a scan keeps; a scan with ownShardsOnly unlinks the own ones.
ScanLocks(w, p, own) ==
  IF own THEN SelectSeq(w.locks, LAMBDA l : l.uuid # p) ELSE w.locks

\* _inspectBaseDirectory(ownShardsOnly): the world after the scan (stale own
\* lockfiles unlinked) and what the scan returns.
InspectBaseDirectory(w, p, own) ==
  LET ls == ScanLocks(w, p, own)
      sgens == DOMAIN w.snaps
      nextGeneration == IF sgens = {} THEN 1 ELSE Max(sgens) + 1
  IN [w |-> [w EXCEPT !.locks = ls],
      snapshotFiles |-> sgens,
      lockedBy |-> [g \in sgens |-> FirstLockAt(ls, g)],
      shardFiles |-> {n \in DOMAIN w.shards :
                        FileLength(FileOf(w, n)) > 0 /\ (~own \/ n[1] = p)},
      nextGeneration |-> nextGeneration,
      nextGenerationLockedBy |-> FirstLockAt(ls, nextGeneration)]

\* _readSnapshot of an existing snapshot file.
ReadSnapshot(w, g) ==
  [generation |-> g, data |-> w.snaps[g].data, ancestors |-> w.snaps[g].ancestors]

\* _writeSnapshot: a whole-file write of <appUUID>.<gen>.sdsn.
WriteSnapshot(w, snapshot) ==
  [w EXCEPT !.snaps =
     [g \in DOMAIN w.snaps \cup {snapshot.generation} |->
        IF g = snapshot.generation
        THEN [data |-> snapshot.data, ancestors |-> snapshot.ancestors]
        ELSE w.snaps[g]],
            !.tails = [n \in DOMAIN w.tails \ {<<"app", snapshot.generation>>} |->
                         w.tails[n]]]

UnlinkSnapshot(w, g) ==
  [w EXCEPT !.snaps = [h \in DOMAIN w.snaps \ {g} |-> w.snaps[h]],
            !.tails = [n \in DOMAIN w.tails \ {<<"app", g>>} |-> w.tails[n]]]

\* A faulty unlink that leaves the shard file in place.
KeepShard(w, name) == w

UnlinkShard(w, name) ==
  [w EXCEPT !.shards = [n \in DOMAIN w.shards \ {name} |-> w.shards[n]],
            !.tails = [n \in DOMAIN w.tails \ {name} |-> w.tails[n]]]

\* _readShard by the instance of the world: the transactions of the file
\* sorted by sequence number; the read fails when the file is gone or when an
\* own shard holds no complete block.
ReadShard(w, name) ==
  IF name \in DOMAIN w.shards
  THEN LET r == ReadShardFile(FileOf(w, name), name[1] = w.shardUUID)
       IN [ok |-> r.ok, transactions |-> r.transactions]
  ELSE [ok |-> FALSE, transactions |-> <<>>]

\* The directory after _readShard: the file the read leaves.
AfterReadShard(w, name) ==
  IF name \in DOMAIN w.shards
  THEN LET r == ReadShardFile(FileOf(w, name), name[1] = w.shardUUID)
       IN [w EXCEPT
            !.shards = [n \in DOMAIN w.shards |->
                          IF n = name THEN r.file.blocks ELSE w.shards[n]],
            !.tails = [n \in (DOMAIN w.tails \ {name})
                               \cup (IF r.file.tail > 0 THEN {name} ELSE {}) |->
                          IF n = name THEN r.file.tail ELSE w.tails[n]]]
  ELSE w

\* A faulty replay loop that keeps the first sequence number it reads.
RECURSIVE ReplayFirst(_, _, _)
ReplayFirst(seq0, dat, txs) ==
  IF txs = <<>> THEN [sequence |-> seq0, data |-> dat]
  ELSE [ReplayFirst(seq0, ApplyPatches(dat, Head(txs).delta), Tail(txs))
          EXCEPT !.sequence = Head(txs).sequence]

\* The replay loop of _open and _tryCompaction: the last sequence number read
\* and the value after all patches.
RECURSIVE Replay(_, _, _)
Replay(seq0, dat, txs) ==
  IF txs = <<>> THEN [sequence |-> seq0, data |-> dat]
  ELSE Replay(Head(txs).sequence, ApplyPatches(dat, Head(txs).delta), Tail(txs))

\* _writeLockfile: writing <shardUUID>.<gen>.sdlk gives it the newest mtime.
WriteLockfile(w, p, g) ==
  [w EXCEPT !.locks =
     Append(SelectSeq(w.locks, LAMBDA l : ~(l.uuid = p /\ l.generation = g)),
            [uuid |-> p, generation |-> g])]

\* _deleteLockfile.
DeleteLockfile(w, p, g) ==
  [w EXCEPT !.locks =
     SelectSeq(w.locks, LAMBDA l : ~(l.uuid = p /\ l.generation = g))]

\* _appendToShard: one transaction block appended to the shard of the
\* generation the instance is at.
AppendToShard(w, p, tx) ==
  LET name == <<p, w.generation>>
      old == IF name \in DOMAIN w.shards THEN w.shards[name] ELSE <<>>
  IN [w EXCEPT !.shards = [n \in DOMAIN w.shards \cup {name} |->
                             IF n = name THEN Append(old, tx) ELSE w.shards[n]],
               !.shardSize = w.shardSize + 1]

\* A faulty loop that unlinks every unlocked snapshot below the own
\* generation, referenced or not.
RemoveBelow(w, scan) ==
  LET dead == {g \in scan.snapshotFiles :
                 g < w.generation /\ scan.lockedBy[g] = None}
  IN [w EXCEPT !.snaps = [g \in DOMAIN w.snaps \ dead |-> w.snaps[g]]]

\* The loop of _deleteShard over the scanned snapshots: unreferenced
\* snapshots below the own generation are unlinked.
RemoveUnreferenced(w, scan) ==
  LET dead == {g \in scan.snapshotFiles :
                 /\ g < w.generation
                 /\ scan.lockedBy[g] = None
                 /\ ~\E n \in scan.shardFiles : n[2] = g}
  IN [w EXCEPT !.snaps = [g \in DOMAIN w.snaps \ dead |-> w.snaps[g]]]

\* _deleteShard(generation).
DeleteShard(w, p, g) ==
  LET w1 == UnlinkShard(w, <<p, g>>)
      scan == InspectBaseDirectory(w1, p, FALSE)
  IN RemoveUnreferenced(scan.w, scan)

\* _renameBrokenFile: the shard leaves its name for a *.sdbf name.
RenameBrokenFile(w, name) ==
  [UnlinkShard(w, name) EXCEPT !.quar = w.quar \cup {name}]

\* A faulty _rebase whose merge transaction resumes the sequence numbers from
\* the snapshot's ancestor entry for the own shard.
RebaseFromAncestor(w, p, snapshot, base) ==
  LET oldGeneration == w.generation
      anc == snapshot.ancestors
      resumed == IF p \in DOMAIN anc THEN anc[p] ELSE 0
  IN IF /\ snapshot.generation = oldGeneration + 1
        /\ p \in DOMAIN anc
        /\ anc[p] = w.sequence
     THEN DeleteShard([w EXCEPT !.generation = snapshot.generation,
                                !.shardSize = 0,
                                !.data = snapshot.data], p, oldGeneration)
     ELSE LET updated == Merger(w.data, snapshot.data, base.data)
              delta == Patches(w.data, updated)
              w1 == [w EXCEPT !.generation = snapshot.generation, !.shardSize = 0]
              w2 == IF PatchEmpty(delta) THEN w1
                    ELSE [AppendToShard([w1 EXCEPT !.sequence = resumed + 1], p,
                                        [sequence |-> resumed + 1, delta |-> delta])
                            EXCEPT !.data = updated]
          IN DeleteShard(w2, p, oldGeneration)

\* _rebase(snapshot, base).
Rebase(w, p, snapshot, base) ==
  LET oldGeneration == w.generation
      anc == snapshot.ancestors
  IN IF /\ snapshot.generation = oldGeneration + 1
        /\ p \in DOMAIN anc
        /\ anc[p] = w.sequence
     THEN \* fast forward
          DeleteShard([w EXCEPT !.generation = snapshot.generation,
                                !.shardSize = 0,
                                !.data = snapshot.data], p, oldGeneration)
     ELSE \* full merge
          LET updated == Merger(w.data, snapshot.data, base.data)
              delta == Patches(w.data, updated)
              w1 == [w EXCEPT !.generation = snapshot.generation, !.shardSize = 0]
              w2 == IF PatchEmpty(delta) THEN w1
                    ELSE [AppendToShard([w1 EXCEPT !.sequence = w.sequence + 1], p,
                                        [sequence |-> w.sequence + 1, delta |-> delta])
                            EXCEPT !.data = updated]
          IN DeleteShard(w2, p, oldGeneration)

\* The loop of _open over the own shards, newest generation first.
RECURSIVE OpenShards(_, _, _, _, _)
OpenShards(w, p, todo, lastSnapshot, snapshotFiles) ==
  IF todo = {} THEN w
  ELSE
    LET g == Max(todo)
        name == <<p, g>>
        anc0(s) == IF p \in DOMAIN s.ancestors THEN s.ancestors[p] ELSE 0
    IN IF FileLength(FileOf(w, name)) = 0
       THEN \* blank shard: it is deleted
            OpenShards(UnlinkShard(w, name), p, todo \ {g},
                       lastSnapshot, snapshotFiles)
       ELSE IF g \notin snapshotFiles /\ g > 0
       THEN \* snapshot missing: the shard is moved aside, the next one is tried
            OpenShards(RenameBrokenFile(w, name), p, todo \ {g},
                       lastSnapshot, snapshotFiles)
       ELSE IF lastSnapshot.generation = g
       THEN \* it's a match
            LET rd == ReadShard(w, name)
                wr == AfterReadShard(w, name)
                r == Replay(anc0(lastSnapshot), lastSnapshot.data, rd.transactions)
            IN IF rd.ok
               THEN [wr EXCEPT !.sequence = r.sequence,
                               !.shardSize = Len(wr.shards[name]),
                               !.data = r.data]
               ELSE \* the read threw: the shard is moved aside
                    OpenShards(RenameBrokenFile(w, name), p, todo \ {g},
                               lastSnapshot, snapshotFiles)
       ELSE IF g \in snapshotFiles /\ <<"app", g>> \in DOMAIN w.tails
       THEN \* references a broken snapshot: the shard is moved aside
            OpenShards(RenameBrokenFile(w, name), p, todo \ {g},
                       lastSnapshot, snapshotFiles)
       ELSE \* references another snapshot: replay over it, then rebase
            LET baseSnapshot == IF g \in snapshotFiles
                                THEN ReadSnapshot(w, g) ELSE InitialSnapshot
                rd == ReadShard(w, name)
                wr == AfterReadShard(w, name)
                r == Replay(anc0(baseSnapshot), baseSnapshot.data, rd.transactions)
            IN IF rd.ok
               THEN Rebase([wr EXCEPT !.generation = baseSnapshot.generation,
                                      !.sequence = r.sequence,
                                      !.shardSize = Len(wr.shards[name]),
                                      !.data = r.data],
                           p, lastSnapshot, baseSnapshot)
               ELSE OpenShards(RenameBrokenFile(w, name), p, todo \ {g},
                               lastSnapshot, snapshotFiles)

\* _open.  LoadLastSnapshot is its loop over snapshotFiles, sorted by
\* generation, from the zero-based index i down: a locked file is passed
\* over, a file that cannot be read is spliced out and i incremented before
\* the loop decrements it, the first file read ends the loop.  Its result is
\* the generation loaded (0 for the initial snapshot) and the files left, or
\* the TypeError of snapshotFiles[i].lockedBy for an index past the end.
\* When the loop throws, nothing but the scan has happened.
Open(w, p) ==
  LET scan == InspectBaseDirectory(w, p, TRUE)
      RECURSIVE LoadLastSnapshot(_, _)
      LoadLastSnapshot(files, i) ==
        IF i < 0 THEN [threw |-> FALSE, generation |-> 0, files |-> files]
        ELSE IF i >= Len(files)
             THEN [threw |-> TRUE, generation |-> 0, files |-> files]
        ELSE IF scan.lockedBy[files[i + 1]] # None
             THEN LoadLastSnapshot(files, i - 1)
        ELSE IF <<"app", files[i + 1]>> \in DOMAIN w.tails
             THEN LoadLastSnapshot(SubSeq(files, 1, i) \o SubSeq(files, i + 2, Len(files)),
                                   (i + 1) - 1)
        ELSE [threw |-> FALSE, generation |-> files[i + 1], files |-> files]
      sorted == SortSeq(CHOOSE f \in [1 .. Cardinality(scan.snapshotFiles) -> scan.snapshotFiles] :
                          {f[i] : i \in DOMAIN f} = scan.snapshotFiles,
                        LAMBDA a, b : a < b)
      loaded == LoadLastSnapshot(sorted, Len(sorted) - 1)
      lastSnapshot == IF loaded.generation = 0 THEN InitialSnapshot
                      ELSE ReadSnapshot(scan.w, loaded.generation)
      w1 == [scan.w EXCEPT
               !.generation = lastSnapshot.generation,
               !.sequence = IF p \in DOMAIN lastSnapshot.ancestors
                            THEN lastSnapshot.ancestors[p] ELSE 0,
               !.shardSize = 0,
               !.data = lastSnapshot.data]
  IN IF loaded.threw THEN [scan.w EXCEPT !.threw = TRUE]
     ELSE OpenShards(w1, p, {n[2] : n \in scan.shardFiles}, lastSnapshot,
                     {loaded.files[i] : i \in 1 .. Len(loaded.files)})

\* _tryCompaction, the loop over the shards of the base generation: every
\* shard is replayed over the base and merged into the compacted snapshot.
\* The reads of the shards in bad throw.
RECURSIVE MergeShards(_, _, _, _, _)
MergeShards(w, todo, base, acc, bad) ==
  IF todo = {} THEN acc
  ELSE
    LET name == CHOOSE n \in todo : \A m \in todo : DirOrder[n[1]] <= DirOrder[m[1]]
        rd == IF name \in bad THEN [ok |-> FALSE, transactions |-> <<>>]
              ELSE ReadShard(w, name)
        r == Replay(-1, base.data, rd.transactions)
        finalSequence == IF rd.ok THEN r.sequence ELSE -1
    IN IF finalSequence = -1
       THEN MergeShards(w, todo \ {name}, base, acc, bad)
       ELSE MergeShards(w, todo \ {name}, base,
              [first |-> FALSE,
               data |-> IF acc.first THEN r.data
                        ELSE Merger(acc.data, r.data, base.data),
               ancestors |-> [u \in DOMAIN acc.ancestors \cup {name[1]} |->
                                IF u = name[1] THEN finalSequence
                                ELSE acc.ancestors[u]]],
              bad)

----------------------------------------------------------------------------
\* The instances.

NoSnap == InitialSnapshot

Item(type, n, cp, snapshot, base) ==
  [type |-> type, n |-> n, cp |-> cp, snapshot |-> snapshot, base |-> base]

NoCur == [n |-> 0, base |-> {}, throws |-> FALSE]

IdleComp ==
  [pc |-> "idle", gen |-> 0, base |-> NoSnap, files |-> {}, snap |-> NoSnap,
   read |-> EmptyMap]

NoRes == [op |-> "none", out |-> "none", cp |-> FALSE]

NoCres == [gen |-> 0, out |-> "none", rival |-> FALSE, lockLeft |-> FALSE]

NoVal == [valid |-> FALSE, val |-> {}]

NoHist ==
  [preClose |-> NoVal,     \* the value when close() resolved
   reopened |-> FALSE,     \* _open has run for an open() that followed close()
   lastTx |-> [valid |-> FALSE, chg |-> <<"p1", 0>>, gen |-> 0],
   closeTx |-> [valid |-> FALSE, chg |-> <<"p1", 0>>, gen |-> 0],
   expect |-> {},          \* what the last rebase had to bring together
   prevUpd |-> NoVal,      \* the value the preceding update produced
   thrown |-> [valid |-> FALSE, generation |-> 0, sequence |-> 0,
               data |-> {}, shard |-> <<>>],
   cut |-> [valid |-> FALSE, chg |-> {}, kept |-> <<>>]]  \* the block cut off

\* The configuration the tests construct their instances with: both
\* intervals 0 and no compactionSizeThreshold (a field left out is the empty set).
testConfig ==
  [compactionSizeThreshold |-> {}, compactionIntervalMinutes |-> 0,
   checkIntervalMinutes |-> 0]

ThresholdDefault == 65536

ThresholdMax == 103809024

IntervalDefault == 30

CheckDefault == 15

\* The constructor: config.compactionSizeThreshold ?? 0x10000, and 0 or a
\* value above 0x6300000 becomes 0x6300000.  Sizes are counted in blocks.
CompactionSizeThreshold(p) ==
  LET c == config[p].compactionSizeThreshold
      v == IF c = {} THEN ThresholdDefault ELSE CHOOSE x \in c : TRUE
  IN IF v = 0 \/ v > ThresholdMax THEN ThresholdMax ELSE v

\* The constructor: config.compactionIntervalMinutes || 30.
CompactionIntervalMinutes(p) ==
  IF config[p].compactionIntervalMinutes = 0 THEN IntervalDefault
  ELSE config[p].compactionIntervalMinutes

\* The constructor: config.checkIntervalMinutes || 15.
CheckIntervalMinutes(p) ==
  IF config[p].checkIntervalMinutes = 0 THEN CheckDefault
  ELSE config[p].checkIntervalMinutes

\* The timers of an instance: what the timer _compactionTimer refers to is
\* waiting for ("none" once it fired or was cleared), whether the timer of
\* _checkTimer is waiting and the delay in milliseconds it was last set
\* with, and whether a timer is waiting that no field refers to any more.
NoTimers ==
  [compaction |-> "none", check |-> FALSE, checkDelay |-> 0,
   strayCompaction |-> FALSE, strayCheck |-> FALSE]

MsPerMinute == 60000

\* this._compactionTimer = setTimeout(...): a waiting timer the field
\* referred to keeps waiting.
ArmCompaction(t, kind) ==
  [t EXCEPT !.compaction = kind, !.strayCompaction = @ \/ t.compaction # "none"]

\* this._checkTimer = setTimeout(..., delay).
ArmCheck(t, delay) ==
  [t EXCEPT !.check = TRUE, !.checkDelay = delay, !.strayCheck = @ \/ t.check]

\* clearTimeout(this._compactionTimer).
ClearCompaction(t) == [t EXCEPT !.compaction = "none"]

\* clearTimeout(this._checkTimer).
ClearCheck(t) == [t EXCEPT !.check = FALSE]

\* The end of _open: the timers are set up from the size of the own shard.
SetupTimers(p, t, size) ==
  LET t1 == IF size > CompactionSizeThreshold(p) THEN ArmCompaction(t, "size")
            ELSE IF CompactionIntervalMinutes(p) > 0
                 THEN ArmCompaction(t, "interval") ELSE t
  IN IF CheckIntervalMinutes(p) > 0
     THEN ArmCheck(t1, CompactionIntervalMinutes(p) * MsPerMinute) ELSE t1

\* The end of _appendToShard: the shard grew over the threshold.
AppendTimers(p, t, oldShardSize, newShardSize) ==
  IF /\ oldShardSize <= CompactionSizeThreshold(p)
     /\ newShardSize > CompactionSizeThreshold(p)
  THEN ArmCompaction(ClearCompaction(t), "size")
  ELSE t

\* The end of _performCompaction: the next compaction is scheduled.
NextCompaction(p, t) ==
  IF CompactionIntervalMinutes(p) > 0 THEN ArmCompaction(t, "interval") ELSE t

\* The end of _checkRebase: the next check is scheduled.
NextCheck(p, t) ==
  IF CheckIntervalMinutes(p) > 0
  THEN ArmCheck(t, CompactionIntervalMinutes(p) * MsPerMinute) ELSE t

\* close(): both timers are cleared.
CloseTimers(t) == ClearCheck(ClearCompaction(t))

SetWorld(p, w) ==
  /\ snaps' = w.snaps
  /\ shards' = w.shards
  /\ locks' = w.locks
  /\ quar' = w.quar
  /\ tails' = w.tails
  /\ generation' = [generation EXCEPT ![p] = w.generation]
  /\ sequence' = [sequence EXCEPT ![p] = w.sequence]
  /\ shardSize' = [shardSize EXCEPT ![p] = w.shardSize]
  /\ data' = [data EXCEPT ![p] = w.data]

\* The state after the constructors, which run _open on an empty directory.
InitState(cfg) ==
  /\ config = cfg
  /\ timers = [p \in Procs |-> SetupTimers(p, NoTimers, 0)]
  /\ snaps = EmptyMap
  /\ shards = EmptyMap
  /\ locks = <<>>
  /\ quar = {}
  /\ tails = EmptyMap
  /\ generation = [p \in Procs |-> 0]
  /\ sequence = [p \in Procs |-> 0]
  /\ shardSize = [p \in Procs |-> 0]
  /\ data = [p \in Procs |-> InitialData]
  /\ atx = [p \in Procs |-> "ok"]
  /\ queue = [p \in Procs |-> <<>>]
  /\ cur = [p \in Procs |-> NoCur]
  /\ comp = [p \in Procs |-> IdleComp]
  /\ res = [p \in Procs |-> NoRes]
  /\ cres = [p \in Procs |-> NoCres]
  /\ writes = [g \in 1 .. MaxGen + 1 |-> 0]
  /\ ncalls = [p \in Procs |-> 0]
  /\ nopens = [p \in Procs |-> 0]
  /\ committed = [p \in Procs |-> {}]
  /\ closedP = [p \in Procs |-> FALSE]
  /\ hist = [p \in Procs |-> NoHist]

NoArg == [kind |-> "none"]

Init == InitState([p \in Procs |-> testConfig]) /\ arg = NoArg /\ ret = NoArg

Pending(p, types) == \E i \in 1 .. Len(queue[p]) : queue[p][i].type \in types

HeadIs(p, types) == queue[p] # <<>> /\ Head(queue[p]).type \in types /\ cur[p] = NoCur

\* A faulty chain that runs the newest callback first.
EnqueueFront(p, item) == queue' = [queue EXCEPT ![p] = <<item>> \o @]

Enqueue(p, item) == queue' = [queue EXCEPT ![p] = Append(@, item)]

Pop(p) == queue' = [queue EXCEPT ![p] = Tail(@)]

ShardOf(p, g) == IF <<p, g>> \in DOMAIN shards THEN shards[<<p, g>>] ELSE <<>>

\* update(updater): the call chains the transaction on _activeTx.  At most
\* max calls are made.
CallUpdateUpTo(p, throws, max) ==
  /\ ncalls[p] < max
  /\ Len(queue[p]) < MaxQueue
  /\ ~Pending(p, {"close", "open"})
  /\ Enqueue(p, Item(IF throws THEN "updateThrows" ELSE "update",
                     ncalls[p] + 1, closedP[p], NoSnap, NoSnap))
  /\ ncalls' = [ncalls EXCEPT ![p] = @ + 1]
  /\ hist' = [hist EXCEPT ![p].preClose = NoVal, ![p].closeTx.valid = FALSE]
  /\ UNCHANGED <<arg, ret, config, timers, fsVars, memVars, atx, cur, comp, res, cres, writes, nopens,
                 committed, closedP>>

CallUpdate(p, throws) == CallUpdateUpTo(p, throws, MaxUpd)

\* update(updater) with the updater of an earlier call k: on a value that
\* holds the change of call k it changes nothing and immer produces no patch.
CallUpdateAgain(p) ==
  /\ ncalls[p] < MaxUpd
  /\ Len(queue[p]) < MaxQueue
  /\ ~Pending(p, {"close", "open"})
  /\ \E k \in 1 .. ncalls[p] :
       Enqueue(p, Item("update", k, closedP[p], NoSnap, NoSnap))
  /\ ncalls' = [ncalls EXCEPT ![p] = @ + 1]
  /\ hist' = [hist EXCEPT ![p].preClose = NoVal, ![p].closeTx.valid = FALSE]
  /\ UNCHANGED <<arg, ret, config, timers, fsVars, memVars, atx, cur, comp, res, cres, writes, nopens,
                 committed, closedP>>

\* get(): the call awaits _activeTx; the item remembers how many update()
\* calls were made before it.
CallGet(p) ==
  /\ Len(queue[p]) < MaxQueue
  /\ ~Pending(p, {"close", "open", "get"})
  /\ Enqueue(p, Item("get", ncalls[p], closedP[p], NoSnap, NoSnap))
  /\ hist' = [hist EXCEPT ![p].preClose = NoVal, ![p].closeTx.valid = FALSE]
  /\ UNCHANGED <<arg, ret, config, timers, fsVars, memVars, atx, cur, comp, res, cres, writes, ncalls,
                 nopens, committed, closedP>>

\* close().  At most max calls are made.
CallCloseUpTo(p, max) ==
  /\ nopens[p] < max
  /\ ~closedP[p]
  /\ ~Pending(p, {"close", "open"})
  /\ Enqueue(p, Item("close", 0, closedP[p], NoSnap, NoSnap))
  /\ nopens' = [nopens EXCEPT ![p] = @ + 1]
  /\ UNCHANGED <<arg, ret, config, timers, fsVars, memVars, atx, cur, comp, res, cres, writes, ncalls,
                 committed, closedP, hist>>

CallClose(p) == CallCloseUpTo(p, MaxOpens)

\* open() after a close().
CallOpen(p) ==
  /\ closedP[p]
  /\ ~Pending(p, {"close", "open"})
  /\ Enqueue(p, Item("open", 0, closedP[p], NoSnap, NoSnap))
  /\ closedP' = [closedP EXCEPT ![p] = FALSE]
  /\ UNCHANGED <<arg, ret, config, timers, fsVars, memVars, atx, cur, comp, res, cres, writes, ncalls,
                 nopens, committed, hist>>

\* A faulty draft: the value the instance was constructed with.
DraftInitial(p) == InitialData

\* The value an updater is run on: this._data when the transaction starts.
Draft(p) == data[p]

\* A faulty transaction that numbers its block with the sequence number the
\* instance is at, without incrementing it.
UpdateKeepsSequence(w, p, c) ==
  IF c.throws THEN w
  ELSE LET updated == Updater(p, c.n, c.base)
           delta == Patches(c.base, updated)
       IN IF PatchEmpty(delta) THEN w
          ELSE [AppendToShard(w, p, [sequence |-> w.sequence, delta |-> delta])
                  EXCEPT !.data = updated]

\* A faulty transaction that takes a sequence number for an empty patch too.
UpdateCountsEmpty(w, p, c) ==
  IF c.throws THEN w
  ELSE LET updated == Updater(p, c.n, c.base)
           delta == Patches(c.base, updated)
       IN IF PatchEmpty(delta) THEN [w EXCEPT !.sequence = w.sequence + 1]
          ELSE [AppendToShard([w EXCEPT !.sequence = w.sequence + 1], p,
                              [sequence |-> w.sequence + 1, delta |-> delta])
                  EXCEPT !.data = updated]

\* The body of the transaction of update(): produceWithPatches, then, for a
\* non-empty delta, the sequence number, the shard append and the new value.
UpdateTransaction(w, p, c) ==
  IF c.throws THEN w
  ELSE LET updated == Updater(p, c.n, c.base)
           delta == Patches(c.base, updated)
       IN IF PatchEmpty(delta) THEN w
          ELSE [AppendToShard([w EXCEPT !.sequence = w.sequence + 1], p,
                              [sequence |-> w.sequence + 1, delta |-> delta])
                  EXCEPT !.data = updated]

\* A faulty chain that keeps the rejection of the transaction.
AfterUpdateKeeps(state) == state

\* What the catch on the transaction leaves in _activeTx: a resolved promise.
AfterUpdate(state) == "ok"

\* The transaction of an update() reaches the head of the chain.  On a
\* rejected _activeTx its callback is skipped and the call rejects.
ExecUpdateStart(p) ==
  /\ HeadIs(p, {"update", "updateThrows"})
  /\ LET it == Head(queue[p]) IN
       IF atx[p] # "ok"
       THEN /\ res' = [res EXCEPT ![p] = [op |-> "update", out |-> atx[p], cp |-> it.cp]]
            /\ atx' = [atx EXCEPT ![p] = AfterUpdate(atx[p])]
            /\ Pop(p)
            /\ UNCHANGED <<cur, hist>>
       ELSE /\ cur' = [cur EXCEPT ![p] = [n |-> it.n, base |-> Draft(p),
                                          throws |-> it.type = "updateThrows"]]
            /\ hist' = [hist EXCEPT ![p].thrown =
                          [valid |-> FALSE, generation |-> generation[p],
                           sequence |-> sequence[p], data |-> data[p],
                           shard |-> ShardOf(p, generation[p])]]
            /\ UNCHANGED <<res, atx, queue>>
  /\ UNCHANGED <<arg, ret, config, timers, fsVars, memVars, comp, cres, writes, ncalls, nopens,
                 committed, closedP>>

\* The updater returns (or throws) and the transaction commits.
ExecUpdateFinish(p) ==
  /\ cur[p] # NoCur
  /\ LET c == cur[p]
         it == Head(queue[p])
         w == UpdateTransaction(World(p), p, c)
     IN /\ SetWorld(p, w)
        /\ timers' = [timers EXCEPT ![p] =
                        AppendTimers(p, @, shardSize[p], w.shardSize)]
        /\ res' = [res EXCEPT ![p] = [op |-> "update",
                                      out |-> IF c.throws THEN "thrown" ELSE "ok",
                                      cp |-> it.cp]]
        /\ atx' = [atx EXCEPT ![p] = AfterUpdate(IF c.throws THEN "thrown" ELSE "ok")]
        /\ committed' = [committed EXCEPT ![p] =
                           IF c.throws THEN @ ELSE @ \cup {<<p, c.n>>}]
        /\ hist' = [hist EXCEPT
             ![p].thrown.valid = c.throws,
             ![p].reopened = IF c.throws THEN @ ELSE FALSE,
             ![p].lastTx = IF c.throws THEN @
                           ELSE [valid |-> TRUE, chg |-> <<p, c.n>>,
                                 gen |-> generation[p]],
             ![p].prevUpd = IF c.throws THEN @
                            ELSE [valid |-> TRUE, val |-> w.data]]
  /\ cur' = [cur EXCEPT ![p] = NoCur]
  /\ Pop(p)
  /\ UNCHANGED <<arg, ret, config, comp, cres, writes, ncalls, nopens, closedP>>

\* appendFile rejects in the transaction of an update(): the sequence number
\* was taken, the value is not assigned, the call rejects and the catch on
\* the transaction leaves _activeTx resolved.
ExecUpdateFails(p) ==
  /\ cur[p] # NoCur
  /\ ~cur[p].throws
  /\ ~PatchEmpty(Patches(cur[p].base, Updater(p, cur[p].n, cur[p].base)))
  /\ SetWorld(p, [World(p) EXCEPT !.sequence = @ + 1])
  /\ res' = [res EXCEPT ![p] = [op |-> "update", out |-> "update failed",
                                cp |-> Head(queue[p]).cp]]
  /\ atx' = [atx EXCEPT ![p] = AfterUpdate("update failed")]
  /\ hist' = [hist EXCEPT ![p].thrown.valid = FALSE]
  /\ cur' = [cur EXCEPT ![p] = NoCur]
  /\ Pop(p)
  /\ UNCHANGED <<arg, ret, config, timers, comp, cres, writes, ncalls, nopens, committed, closedP>>

\* get() resumes: it returns _data, or rejects with a rejected _activeTx.
ExecGet(p) ==
  /\ HeadIs(p, {"get"})
  /\ res' = [res EXCEPT ![p] = [op |-> "get", out |-> atx[p],
                                cp |-> Head(queue[p]).cp]]
  /\ Pop(p)
  /\ hist' = [hist EXCEPT ![p].thrown.valid = FALSE]
  /\ UNCHANGED <<arg, ret, config, timers, fsVars, memVars, atx, cur, comp, cres, writes, ncalls,
                 nopens, committed, closedP>>

\* close() resumes after the pending transactions.
ExecClose(p) ==
  /\ HeadIs(p, {"close"})
  /\ atx' = [atx EXCEPT ![p] = "closed"]
  /\ timers' = [timers EXCEPT ![p] = CloseTimers(@)]
  /\ closedP' = [closedP EXCEPT ![p] = TRUE]
  /\ res' = [res EXCEPT ![p] = [op |-> "close", out |-> "ok", cp |-> FALSE]]
  /\ hist' = [hist EXCEPT
       ![p].preClose = [valid |-> TRUE, val |-> data[p]],
       ![p].closeTx = IF hist[p].lastTx.valid /\ hist[p].lastTx.gen = generation[p]
                      THEN hist[p].lastTx ELSE [hist[p].lastTx EXCEPT !.valid = FALSE],
       ![p].reopened = FALSE,
       ![p].thrown.valid = FALSE]
  /\ Pop(p)
  /\ UNCHANGED <<arg, ret, config, fsVars, memVars, cur, comp, cres, writes, ncalls, nopens,
                 committed>>

\* open() resumes: _open runs when awaiting _activeTx threw, and open()
\* settles as the promise of _open does.
ExecOpen(p) ==
  /\ HeadIs(p, {"open"})
  /\ LET opened == Open(World(p), p)
         out == IF atx[p] # "ok" /\ opened.threw THEN "TypeError" ELSE "ok"
     IN /\ IF atx[p] # "ok"
           THEN /\ SetWorld(p, opened)
                /\ timers' = [timers EXCEPT ![p] =
                                IF opened.threw THEN @
                                ELSE SetupTimers(p, @, opened.shardSize)]
                /\ hist' = [hist EXCEPT ![p].reopened = TRUE, ![p].expect = {},
                                        ![p].prevUpd = NoVal, ![p].thrown.valid = FALSE]
           ELSE /\ UNCHANGED <<fsVars, memVars, timers>>
                /\ hist' = [hist EXCEPT ![p].thrown.valid = FALSE]
        /\ atx' = [atx EXCEPT ![p] = out]
        /\ res' = [res EXCEPT ![p] = [op |-> "open", out |-> out, cp |-> FALSE]]
  /\ Pop(p)
  /\ UNCHANGED <<arg, ret, config, cur, comp, cres, writes, ncalls, nopens, committed, closedP>>

\* The changes recorded in a shard file.
ShardChanges(txs) == UNION {txs[i].delta.add : i \in 1 .. Len(txs)}

\* A rebase chained on _activeTx fails on its slow path: the merger throws
\* inside produceWithPatches, before anything was assigned, or appendFile
\* rejects for the merge transaction, after the generation, the shard size
\* and the sequence number were assigned.  Nothing catches the rejection,
\* which stays in _activeTx.
ExecRebaseFails(p, fault) ==
  /\ HeadIs(p, {"rebase", "crebase"})
  /\ atx[p] = "ok"
  /\ LET it == Head(queue[p])
         w == World(p)
         anc == it.snapshot.ancestors
         fast == /\ it.snapshot.generation = w.generation + 1
                 /\ p \in DOMAIN anc
                 /\ anc[p] = w.sequence
         delta == Patches(w.data, Merger(w.data, it.snapshot.data, it.base.data))
     IN /\ it.type = "rebase" \/ generation[p] = it.base.generation
        /\ ~fast
        /\ fault = "append failed" => ~PatchEmpty(delta)
        /\ SetWorld(p, IF fault = "merger threw" THEN w
                       ELSE [w EXCEPT !.generation = it.snapshot.generation,
                                      !.shardSize = 0,
                                      !.sequence = w.sequence + 1])
  /\ atx' = [atx EXCEPT ![p] = fault]
  /\ hist' = [hist EXCEPT ![p].thrown.valid = FALSE]
  /\ Pop(p)
  /\ UNCHANGED <<arg, ret, config, timers, cur, comp, res, cres, writes, ncalls, nopens, committed,
                 closedP>>

\* A rebase chained on _activeTx runs: the one of _checkRebase, or the one
\* after the own compaction, which runs only if the instance is still at the
\* base generation.  Chained behind a rebase that failed, it is passed over.
ExecRebase(p) ==
  /\ HeadIs(p, {"rebase", "crebase"})
  /\ LET it == Head(queue[p])
         runs == /\ atx[p] \notin {"merger threw", "append failed"}
                 /\ it.type = "rebase" \/ generation[p] = it.base.generation
     IN /\ SetWorld(p, IF runs THEN Rebase(World(p), p, it.snapshot, it.base)
                       ELSE World(p))
        /\ hist' = [hist EXCEPT
             ![p].expect = IF /\ runs
                              /\ it.snapshot.generation = generation[p] + 1
                              /\ it.base.generation = generation[p]
                           THEN it.snapshot.data
                                  \cup ShardChanges(ShardOf(p, generation[p]))
                           ELSE {},
             ![p].prevUpd = IF runs THEN NoVal ELSE @,
             ![p].reopened = IF runs THEN FALSE ELSE @,
             ![p].thrown.valid = FALSE]
  /\ Pop(p)
  /\ UNCHANGED <<arg, ret, config, timers, atx, cur, comp, res, cres, writes, ncalls, nopens, committed,
                 closedP>>

\* _checkRebase (forceCheckRebase or the check timer): the newest unlocked
\* snapshot above the own generation is read, with the snapshot of the own
\* generation as base, and the rebase is chained on _activeTx.  The check
\* runs while fewer than max operations are chained.
CheckRebaseUpTo(p, max) ==
  /\ Len(queue[p]) < max
  /\ ~Pending(p, {"rebase", "close", "open"})
  /\ LET scan == InspectBaseDirectory(World(p), p, TRUE)
         newer == {g \in scan.snapshotFiles :
                     scan.lockedBy[g] = None /\ g > generation[p]}
         baseOk == \/ generation[p] = 0
                   \/ /\ generation[p] \in scan.snapshotFiles
                      /\ scan.lockedBy[generation[p]] = None
         base == IF generation[p] = 0 THEN InitialSnapshot
                 ELSE ReadSnapshot(scan.w, generation[p])
     IN /\ locks' = scan.w.locks
        /\ timers' = [timers EXCEPT ![p] = NextCheck(p, ClearCheck(@))]
        /\ IF newer # {} /\ baseOk /\ atx[p] = "ok"
           THEN Enqueue(p, Item("rebase", 0, FALSE,
                                ReadSnapshot(scan.w, Max(newer)), base))
           ELSE UNCHANGED queue
  /\ UNCHANGED <<arg, ret, config, snaps, shards, tails, quar, memVars, atx, cur, comp, res, cres,
                 writes, ncalls, nopens, committed, closedP, hist>>

CheckRebase(p) == CheckRebaseUpTo(p, MaxQueue)

----------------------------------------------------------------------------
\* Compaction (_performCompaction), one step per access to the directory.

MergePcs == {"merging", "merged", "written"}

\* An attempt returns: its outcome, whether another attempt held the
\* generation, and whether a lockfile the attempt wrote is still there.
\* _performCompaction then schedules the next compaction on the timers t.
EndAttempt(p, w, g, out, wroteLock, t) ==
  /\ cres' = [cres EXCEPT ![p] =
       [gen |-> g, out |-> out,
        rival |-> \/ \E q \in Procs \ {p} : comp[q].pc \in MergePcs /\ comp[q].gen = g
                  \/ (out # "ok" /\ g \in DOMAIN w.snaps),
        lockLeft |-> wroteLock /\
                     \E i \in 1 .. Len(w.locks) :
                        w.locks[i] = [uuid |-> p, generation |-> g]]]
  /\ timers' = [timers EXCEPT ![p] = NextCompaction(p, t)]

\* _precheckCompaction up to the lockfile write: "go" or the error thrown.
PrecheckCompaction(scan) ==
  IF scan.nextGenerationLockedBy # None THEN "already locked"
  ELSE IF /\ scan.nextGeneration > 1
          /\ \/ scan.nextGeneration - 1 \notin scan.snapshotFiles
             \/ scan.lockedBy[scan.nextGeneration - 1] # None
       THEN "already locked"
       ELSE "go"

\* _tryCompaction up to the shard loop: "go" or the error thrown.
TryCompaction(scan, p, lockedGeneration) ==
  IF \/ scan.nextGeneration # lockedGeneration
     \/ scan.nextGenerationLockedBy # p
  THEN "could not lock"
  ELSE IF /\ scan.nextGeneration > 1
          /\ \/ scan.nextGeneration - 1 \notin scan.snapshotFiles
             \/ scan.lockedBy[scan.nextGeneration - 1] # None
       THEN "last snapshot lost or locked"
       ELSE IF {n \in scan.shardFiles : n[2] = scan.nextGeneration - 1} = {}
            THEN "no shards"
            ELSE "go"

\* _performCompaction starts with the timers t: the first directory scan.
StartCompaction(p, t) ==
  /\ comp[p].pc = "idle"
  /\ LET scan == InspectBaseDirectory(World(p), p, FALSE)
         out == PrecheckCompaction(scan)
     IN /\ scan.nextGeneration <= MaxGen
        /\ IF out = "go"
           THEN /\ comp' = [comp EXCEPT ![p] =
                              [IdleComp EXCEPT !.pc = "scanned",
                                               !.gen = scan.nextGeneration]]
                /\ timers' = [timers EXCEPT ![p] = t]
                /\ UNCHANGED cres
           ELSE /\ EndAttempt(p, scan.w, scan.nextGeneration, out, FALSE, t)
                /\ UNCHANGED comp
  /\ UNCHANGED <<arg, ret, config, fsVars, memVars, atx, queue, cur, res, writes, ncalls,
                 nopens, committed, closedP, hist>>

\* forceCompaction, which clears _compactionTimer, or that timer firing.
CompactScan(p) == StartCompaction(p, ClearCompaction(timers[p]))

\* A compaction timer fires that _compactionTimer does not refer to any more.
StrayTimerFires(p) ==
  /\ timers[p].strayCompaction
  /\ StartCompaction(p, [timers[p] EXCEPT !.strayCompaction = FALSE])

\* The lockfile of the next generation is written.
CompactLock(p) ==
  /\ comp[p].pc = "scanned"
  /\ locks' = WriteLockfile(World(p), p, comp[p].gen).locks
  /\ comp' = [comp EXCEPT ![p].pc = "locked"]
  /\ UNCHANGED <<arg, ret, config, timers, snaps, shards, tails, quar, memVars, atx, queue, cur, res, cres,
                 writes, ncalls, nopens, committed, closedP, hist>>

\* _tryCompaction: the second scan decides who holds the generation; the
\* holder loads the base snapshot and lists the shards of the base generation.
CompactRescan(p) ==
  /\ comp[p].pc = "locked"
  /\ LET scan == InspectBaseDirectory(World(p), p, FALSE)
         g == comp[p].gen
         out == TryCompaction(scan, p, g)
     IN IF out = "go"
        THEN /\ comp' = [comp EXCEPT ![p].pc = "merging",
                           ![p].base = IF g = 1 THEN InitialSnapshot
                                       ELSE ReadSnapshot(scan.w, g - 1),
                           ![p].files = {n \in scan.shardFiles : n[2] = g - 1}]
             /\ UNCHANGED <<locks, cres, timers>>
        ELSE /\ locks' = DeleteLockfile(scan.w, p, g).locks
             /\ comp' = [comp EXCEPT ![p] = IdleComp]
             /\ EndAttempt(p, DeleteLockfile(scan.w, p, g), g, out, TRUE, timers[p])
  /\ UNCHANGED <<arg, ret, config, snaps, shards, tails, quar, memVars, atx, queue, cur, res, writes,
                 ncalls, nopens, committed, closedP, hist>>

\* The shards are read, replayed over the base and merged; the reads of the
\* shards in bad throw.
CompactMerge(p, bad) ==
  /\ comp[p].pc = "merging"
  /\ bad \subseteq comp[p].files
  /\ LET w == World(p)
         c == comp[p]
         own == <<p, c.gen - 1>>
         wr == IF own \in c.files \ bad THEN AfterReadShard(w, own) ELSE w
         acc == MergeShards(w, c.files, c.base,
                            [first |-> TRUE, data |-> c.base.data,
                             ancestors |-> EmptyMap], bad)
     IN /\ shards' = wr.shards
        /\ tails' = wr.tails
        /\ IF acc.first
           THEN /\ locks' = DeleteLockfile(w, p, c.gen).locks
                /\ comp' = [comp EXCEPT ![p] = IdleComp]
                /\ EndAttempt(p, DeleteLockfile(w, p, c.gen), c.gen,
                              "shards don't contain any (valid) data", TRUE, timers[p])
           ELSE /\ comp' = [comp EXCEPT ![p].pc = "merged",
                              ![p].snap = [generation |-> c.gen, data |-> acc.data,
                                           ancestors |-> acc.ancestors],
                              ![p].read = [u \in {n[1] : n \in {m \in c.files \ bad : ReadShard(w, m).ok}} |->
                                             ReadShard(w, <<u, c.gen - 1>>).transactions]]
                /\ UNCHANGED <<locks, cres, timers>>
  /\ UNCHANGED <<arg, ret, config, snaps, quar, memVars, atx, queue, cur, res, writes,
                 ncalls, nopens, committed, closedP, hist>>

\* The compacted snapshot is written.
CompactWrite(p) ==
  /\ comp[p].pc = "merged"
  /\ snaps' = WriteSnapshot(World(p), comp[p].snap).snaps
  /\ writes' = [writes EXCEPT ![comp[p].gen] = @ + 1]
  /\ comp' = [comp EXCEPT ![p].pc = "written"]
  /\ UNCHANGED <<arg, ret, config, timers, shards, tails, locks, quar, memVars, atx, queue, cur, res, cres,
                 ncalls, nopens, committed, closedP, hist>>

\* The lockfile is deleted and the instant rebase is chained on _activeTx.
CompactFinish(p) ==
  /\ comp[p].pc = "written"
  /\ LET w == DeleteLockfile(World(p), p, comp[p].gen) IN
       /\ locks' = w.locks
       /\ EndAttempt(p, w, comp[p].gen, "ok", TRUE, timers[p])
  /\ IF atx[p] = "ok"
     THEN Enqueue(p, Item("crebase", 0, FALSE, comp[p].snap, comp[p].base))
     ELSE UNCHANGED queue
  /\ comp' = [comp EXCEPT ![p] = IdleComp]
  /\ UNCHANGED <<arg, ret, config, snaps, shards, tails, quar, memVars, atx, cur, res, writes, ncalls,
                 nopens, committed, closedP, hist>>

----------------------------------------------------------------------------
\* Failures of the filesystem and of the merger during a compaction.

\* The scan at the top of _tryCompaction throws (readdir, or the read of a
\* lockfile that was unlinked after its stat): the attempt ends there.
CompactRescanFails(p) ==
  /\ comp[p].pc = "locked"
  /\ EndAttempt(p, World(p), comp[p].gen, "rescan failed", TRUE, timers[p])
  /\ comp' = [comp EXCEPT ![p] = IdleComp]
  /\ UNCHANGED <<arg, ret, config, fsVars, memVars, atx, queue, cur, res, writes, ncalls,
                 nopens, committed, closedP, hist>>

\* The base snapshot cannot be read: it is unlinked and the lock released.
\* A snapshot file is damaged only while it was written at most MaxWrites
\* times.
CompactDamaged(p) ==
  /\ comp[p].pc = "locked"
  /\ comp[p].gen > 1
  /\ writes[comp[p].gen - 1] <= MaxWrites
  /\ LET scan == InspectBaseDirectory(World(p), p, FALSE)
         g == comp[p].gen
         w == DeleteLockfile(UnlinkSnapshot(scan.w, g - 1), p, g)
     IN /\ TryCompaction(scan, p, g) = "go"
        /\ snaps' = w.snaps
        /\ locks' = w.locks
        /\ EndAttempt(p, w, g, "last snapshot damaged", TRUE, timers[p])
  /\ comp' = [comp EXCEPT ![p] = IdleComp]
  /\ UNCHANGED <<arg, ret, config, shards, tails, quar, memVars, atx, queue, cur, res, writes, ncalls,
                 nopens, committed, closedP, hist>>

\* The merger throws on the second or a later readable shard.
CompactMergeFails(p) ==
  /\ comp[p].pc = "merging"
  /\ Cardinality({n \in comp[p].files : ReadShard(World(p), n).ok}) > 1
  /\ LET w == DeleteLockfile(World(p), p, comp[p].gen) IN
       /\ locks' = w.locks
       /\ EndAttempt(p, w, comp[p].gen, "could not merge shard", TRUE, timers[p])
  /\ comp' = [comp EXCEPT ![p] = IdleComp]
  /\ UNCHANGED <<arg, ret, config, snaps, shards, tails, quar, memVars, atx, queue, cur, res, writes,
                 ncalls, nopens, committed, closedP, hist>>

\* The write of the compacted snapshot throws.
CompactWriteFails(p) ==
  /\ comp[p].pc = "merged"
  /\ LET w == DeleteLockfile(World(p), p, comp[p].gen) IN
       /\ locks' = w.locks
       /\ EndAttempt(p, w, comp[p].gen, "failed to write snapshot", TRUE, timers[p])
  /\ comp' = [comp EXCEPT ![p] = IdleComp]
  /\ UNCHANGED <<arg, ret, config, snaps, shards, tails, quar, memVars, atx, queue, cur, res, writes,
                 ncalls, nopens, committed, closedP, hist>>

----------------------------------------------------------------------------

ApiNext(p) ==
  \/ CallUpdate(p, FALSE)
  \/ CallUpdate(p, TRUE)
  \/ CallGet(p)
  \/ CallClose(p)
  \/ CallOpen(p)
  \/ ExecUpdateStart(p)
  \/ ExecUpdateFinish(p)
  \/ ExecGet(p)
  \/ ExecClose(p)
  \/ ExecOpen(p)

CompactNext(p) ==
  \/ CompactScan(p)
  \/ CompactLock(p)
  \/ CompactRescan(p)
  \/ CompactMerge(p, {})
  \/ CompactWrite(p)
  \/ CompactFinish(p)

Next ==
  \E p \in Procs :
    \/ ApiNext(p)
    \/ CompactNext(p)
    \/ ExecRebase(p)
    \/ CheckRebase(p)

Spec == Init /\ [][Next]_vars

\* One instance alone in the directory: the API and its queue.
SpecSolo ==
  Init /\ [][
         \/ ApiNext("p1")
       ]_vars

\* The compaction protocol among all processes, with their updates and the
\* rebase each runs after its own compaction.
SpecCompact ==
  Init /\ [][
         \E p \in Procs :
           \/ CallUpdate(p, FALSE) /\ queue[p] = <<>>
           \/ ExecUpdateStart(p)
           \/ ExecUpdateFinish(p)
           \/ CompactNext(p)
           \/ ExecRebase(p)
       ]_vars

\* One instance with its timers, for every configuration of Configs: updates,
\* close() and open(), compactions and rebase checks started while the
\* instance is open, and the timers that fire.
Configs ==
  [compactionSizeThreshold : {{}, {1}}, compactionIntervalMinutes : {0, 1},
   checkIntervalMinutes : {0, 1}]

InitTimers ==
  /\ \E c \in Configs : InitState([p \in Procs |-> IF p = "p1" THEN c ELSE testConfig])
  /\ arg = NoArg /\ ret = NoArg

SpecTimers ==
  InitTimers /\ [][
         \/ CallUpdate("p1", FALSE) /\ queue["p1"] = <<>>
         \/ ExecUpdateStart("p1")
         \/ ExecUpdateFinish("p1")
         \/ CompactScan("p1") /\ ~closedP["p1"]
         \/ StrayTimerFires("p1")
         \/ CompactLock("p1")
         \/ CompactRescan("p1")
         \/ CompactMerge("p1", {})
         \/ CompactWrite("p1")
         \/ CompactFinish("p1")
         \/ ExecRebase("p1")
         \/ CheckRebase("p1") /\ ~closedP["p1"]
         \/ CallClose("p1") /\ queue["p1"] = <<>>
         \/ ExecClose("p1")
         \/ CallOpen("p1")
         \/ ExecOpen("p1")
       ]_vars

\* The last block of the shard of a closed instance loses its end (a write
\* that did not complete): between 1 byte and all but one byte are left.
CutTail(p) ==
  LET name == <<p, generation[p]>> IN
    /\ closedP[p] /\ queue[p] = <<>>
    /\ ~hist[p].cut.valid
    /\ name \in DOMAIN shards /\ Len(shards[name]) > 0 /\ TailOf(World(p), name) = 0
    /\ \E c \in 1 .. BlockLength - 1 :
         tails' = [n \in DOMAIN tails \cup {name} |-> IF n = name THEN c ELSE tails[n]]
    /\ shards' = [shards EXCEPT ![name] = SubSeq(@, 1, Len(@) - 1)]
    /\ hist' = [hist EXCEPT ![p].cut =
                  [valid |-> TRUE,
                   chg |-> shards[name][Len(shards[name])].delta.add,
                   kept |-> SubSeq(shards[name], 1, Len(shards[name]) - 1)]]
    /\ UNCHANGED <<arg, ret, config, timers, snaps, locks, quar, memVars, atx,
                   queue, cur, comp, res, cres, writes, ncalls, nopens,
                   committed, closedP>>

\* Tail corruption: one instance updates, closes, the last block of its shard
\* is cut, and it reopens, updates, closes and reopens again.
SpecTail ==
  Init /\ [][
         \/ CallUpdateUpTo("p1", FALSE, MaxUpd + 1) /\ queue["p1"] = <<>> /\ ~closedP["p1"]
         \/ ExecUpdateStart("p1")
         \/ ExecUpdateFinish("p1")
         \/ CallCloseUpTo("p1", MaxOpens + 1) /\ queue["p1"] = <<>>
         \/ ExecClose("p1")
         \/ CutTail("p1")
         \/ CallOpen("p1")
         \/ ExecOpen("p1")
       ]_vars

\* Eventual consistency: p1 updates, compacts whenever it can and rebases
\* after its compactions; p2 follows by rebase checks.  Every step of a queue,
\* of the compaction and of a check that can be taken is taken.
QueueStep(p) == ExecUpdateStart(p) \/ ExecUpdateFinish(p) \/ ExecRebase(p)

Fairness ==
  /\ \A p \in Procs : WF_vars(QueueStep(p))
  /\ WF_vars(CheckRebase("p2"))
  /\ WF_vars(CompactNext("p1"))

SpecFair ==
  Init /\ [][
         \/ CallUpdate("p1", FALSE) /\ queue["p1"] = <<>>
         \/ \E p \in Procs : QueueStep(p)
         \/ CheckRebase("p2")
         \/ CompactNext("p1")
       ]_vars /\ Fairness

\* _readShard as a function: the shards a single process writes, of up to
\* MaxBlocks transactions, cut at every byte, read by their owner and by a peer.
WrittenShard(p, k) ==
  [i \in 1 .. k |-> [sequence |-> i,
                     delta |-> [add |-> {<<p, i>>}, del |-> {}]]]

PrefixOf(written, cut) ==
  [blocks |-> SubSeq(written, 1, cut \div BlockLength),
   tail |-> cut % BlockLength, junk |-> {}, foreign |-> {}]

ShardReadArgs ==
  {[kind |-> "readShard", written |-> WrittenShard("p1", k), cut |-> c, own |-> o,
    junk |-> {}, foreign |-> {}] :
     k \in 0 .. MaxBlocks, c \in 0 .. MaxBlocks * BlockLength, o \in BOOLEAN}

InitShardRead ==
  /\ InitState([p \in Procs |-> testConfig])
  /\ arg \in {a \in ShardReadArgs : a.cut <= Len(a.written) * BlockLength}
  /\ ret = NoArg

ReadShardCall ==
  /\ arg.kind = "readShard"
  /\ ret.kind = "none"
  /\ ret' = [kind |-> "readShard"]
             @@ ReadShardFile([PrefixOf(arg.written, arg.cut) EXCEPT
                                 !.junk = arg.junk, !.foreign = arg.foreign],
                              arg.own)
  /\ UNCHANGED <<fsVars, memVars, atx, queue, cur, comp, res, cres, writes,
                 ncalls, nopens, committed, closedP, hist, arg, config, timers>>

SpecShardRead == InitShardRead /\ [][ReadShardCall]_vars

\* _readShard on whole files of up to MaxBlocks + 1 transactions in which
\* any blocks were damaged or replaced after they were written.
InitShardDamaged ==
  /\ InitState([p \in Procs |-> testConfig])
  /\ \E k \in 1 .. MaxBlocks + 1 : \E junk, foreign \in SUBSET (1 .. k) :
       \E own \in BOOLEAN :
         /\ junk \cap foreign = {}
         /\ arg = [kind |-> "readShard", written |-> WrittenShard("p1", k),
                   cut |-> k * BlockLength, own |-> own,
                   junk |-> junk, foreign |-> foreign]
  /\ ret = NoArg

SpecShardDamaged == InitShardDamaged /\ [][ReadShardCall]_vars

\* ---------------------------------------------------------------------
\* The block codec byte by byte.  A byte array is a sequence of 0..255 and
\* At(p, i) is its element at the zero-based index i.  An intermediate value
\* that the code keeps in a local variable is handed on as an argument.
At(p, i) == p[i + 1]

\* new Uint8Array holding the values of f
Bytes(f) == f \o <<>>

\* a ^ b
RECURSIVE BitXor(_, _)
BitXor(a, b) ==
  IF a = 0 THEN b
  ELSE IF b = 0 THEN a
  ELSE ((a + b) % 2) + 2 * BitXor(a \div 2, b \div 2)

\* GaloisField constructor: one round of its loop on x
GfShift(x) ==
  IF x = 0 THEN 1 ELSE IF 2 * x >= 256 THEN BitXor(2 * x, 285) ELSE 2 * x

\* the values exp[0], ..., exp[254] the loop stores
gfPowers ==
  <<
     1, 2, 4, 8, 16, 32, 64, 128, 29, 58, 116, 232, 205, 135, 19,
     38, 76, 152, 45, 90, 180, 117, 234, 201, 143, 3, 6, 12, 24, 48,
     96, 192, 157, 39, 78, 156, 37, 74, 148, 53, 106, 212, 181, 119, 238,
     193, 159, 35, 70, 140, 5, 10, 20, 40, 80, 160, 93, 186, 105, 210,
     185, 111, 222, 161, 95, 190, 97, 194, 153, 47, 94, 188, 101, 202, 137,
     15, 30, 60, 120, 240, 253, 231, 211, 187, 107, 214, 177, 127, 254, 225,
     223, 163, 91, 182, 113, 226, 217, 175, 67, 134, 17, 34, 68, 136, 13,
     26, 52, 104, 208, 189, 103, 206, 129, 31, 62, 124, 248, 237, 199, 147,
     59, 118, 236, 197, 151, 51, 102, 204, 133, 23, 46, 92, 184, 109, 218,
     169, 79, 158, 33, 66, 132, 21, 42, 84, 168, 77, 154, 41, 82, 164,
     85, 170, 73, 146, 57, 114, 228, 213, 183, 115, 230, 209, 191, 99, 198,
     145, 63, 126, 252, 229, 215, 179, 123, 246, 241, 255, 227, 219, 171, 75,
     150, 49, 98, 196, 149, 55, 110, 220, 165, 87, 174, 65, 130, 25, 50,
     100, 200, 141, 7, 14, 28, 56, 112, 224, 221, 167, 83, 166, 81, 162,
     89, 178, 121, 242, 249, 239, 195, 155, 43, 86, 172, 69, 138, 9, 18,
     36, 72, 144, 61, 122, 244, 245, 247, 243, 251, 235, 203, 139, 11, 22,
     44, 88, 176, 125, 250, 233, 207, 131, 27, 54, 108, 216, 173, 71, 142 >>

gfExp == [i \in 0..511 |->
           IF i = 510 THEN 1
           ELSE IF i = 511 THEN 2
           ELSE gfPowers[(IF i < 255 THEN i ELSE i - 255) + 1]]

gfLog == [x \in 0..255 |-> IF x = 0 THEN 0
                           ELSE CHOOSE i \in 0..254 : gfPowers[i + 1] = x]

\* gfPowers is what the loop computes: it starts from x = 0 and every round
\* stores the shifted value of the round before.
GfConstructed ==
  /\ Len(gfPowers) = 255
  /\ \A i \in 0..254 : gfPowers[i + 1] = GfShift(IF i = 0 THEN 0 ELSE gfPowers[i])

\* mul(x, y), and div(x, y) for y # 0
GfMul(x, y) == IF x = 0 \/ y = 0 THEN 0 ELSE gfExp[gfLog[x] + gfLog[y]]

GfDiv(x, y) == IF x = 0 THEN 0 ELSE gfExp[gfLog[x] + 255 - gfLog[y]]

PolyScale(p, x) == Bytes([i \in 1..Len(p) |-> GfMul(p[i], x)])

PolyAdd(p, q) ==
  LET ml == IF Len(p) > Len(q) THEN Len(p) ELSE Len(q)
      Padded(r) == Bytes([i \in 1..ml |->
                            IF i > ml - Len(r) THEN r[i - (ml - Len(r))] ELSE 0])
      Added(pp, qq) == Bytes([i \in 1..ml |-> BitXor(pp[i], qq[i])])
  IN  Added(Padded(p), Padded(q))

\* the xor of the elements of s
XorAll(s) ==
  LET RECURSIVE XorFrom(_, _)
      XorFrom(y, i) == IF i > Len(s) THEN y ELSE XorFrom(BitXor(y, s[i]), i + 1)
  IN  XorFrom(0, 1)

\* r[k] is the xor of mul(p[i], q[j]) over i + j = k
PolyMul(p, q) ==
  Bytes([k \in 1..(Len(p) + Len(q) - 1) |->
     XorAll(Bytes([j \in 1..Len(q) |->
               IF k - j + 1 >= 1 /\ k - j + 1 <= Len(p)
               THEN GfMul(p[k - j + 1], q[j]) ELSE 0]))])

PolyEval(p, x) ==
  LET RECURSIVE PolyEvalFrom(_, _)
      PolyEvalFrom(y, i) ==
        IF i > Len(p) THEN y ELSE PolyEvalFrom(BitXor(GfMul(y, x), p[i]), i + 1)
  IN  PolyEvalFrom(p[1], 2)

nSym == 4

\* ReedSolomon constructor: the generator polynomial
rsGen ==
  LET RECURSIVE GenFrom(_, _)
      GenFrom(gen, i) ==
        IF i = nSym THEN gen ELSE GenFrom(PolyMul(gen, <<1, gfExp[i]>>), i + 1)
  IN  GenFrom(<<1, gfExp[0]>>, 1)

\* encodeChunk into a zeroed region of the output: returns the region of
\* Len(input) + nSym bytes.
EncodeChunk(input) ==
  LET RECURSIVE EncodeJ(_, _, _, _, _)
      EncodeJ(out, gen, i, c, j) ==
        IF j = Len(gen) THEN out
        ELSE EncodeJ([out EXCEPT ![i + j + 1] = BitXor(@, GfMul(At(gen, j), c))],
                     gen, i, c, j + 1)
      EncodeRound(out, gen, i) ==
        IF At(out, i) # 0 THEN EncodeJ(out, gen, i, At(out, i), 0) ELSE out
      RECURSIVE EncodeI(_, _, _)
      EncodeI(out, gen, i) ==
        IF i = Len(input) THEN out ELSE EncodeI(EncodeRound(out, gen, i), gen, i + 1)
      Parity(work) == SubSeq(work, Len(input) + 1, Len(input) + nSym)
  IN  input \o Parity(EncodeI(input \o Bytes([i \in 1..nSym |-> 0]), rsGen, 0))

SyndromesOf(input) == Bytes([i \in 1..nSym |-> PolyEval(input, gfExp[i - 1])])

\* Find errors: the loop of decodeChunk over the syndromes s; the result is
\* ep.  A syndrome index below zero reads undefined, which contributes
\* nothing to d.
FindErrors(s) ==
  LET Discrepancy(ep, i) ==
        BitXor(At(s, i),
               XorAll(Bytes([j \in 1..(Len(ep) - 1) |->
                         IF i - j >= 0
                         THEN GfMul(At(ep, Len(ep) - 1 - j), At(s, i - j))
                         ELSE 0])))
      Swapped(np, op2, d) == [ep |-> PolyAdd(np, PolyScale(op2, d)), op |-> op2]
      FindRound(ep, op1, d) ==
        IF d = 0 THEN [ep |-> ep, op |-> op1]
        ELSE IF Len(op1) > Len(ep)
             THEN Swapped(PolyScale(op1, d), PolyScale(ep, GfDiv(1, d)), d)
             ELSE [ep |-> PolyAdd(ep, PolyScale(op1, d)), op |-> op1]
      RECURSIVE FindErrorsFrom(_, _)
      FindErrorsFrom(st, i) ==
        IF i = nSym THEN st
        ELSE FindErrorsFrom(
               FindRound(st.ep, Append(st.op, 0), Discrepancy(st.ep, i)), i + 1)
  IN  FindErrorsFrom([ep |-> <<1>>, op |-> <<1>>], 0).ep

\* Correct errors: the bytes of input at the positions epos corrected from
\* the syndromes s; error stands for the thrown 'Div by zero'.
CorrectErrors(input, epos, s) ==
  LET ilen == Len(input)
      RECURSIVE LocatorFrom(_, _)
      LocatorFrom(q, i) ==
        IF i = Len(epos) THEN q
        ELSE LocatorFrom(PolyMul(q, <<gfExp[ilen - 1 - At(epos, i)], 1>>), i + 1)
      Reversed(r) == Bytes([i \in 1..Len(r) |-> r[Len(r) + 1 - i]])
      LastOf(s1) == SubSeq(s1, Len(s1) - Len(epos) + 1, Len(s1))
      HalfOf(q, o) ==
        Bytes([i \in 1..((Len(q) - o) \div 2) |-> At(q, (i - 1) * 2 + o)])
      Quotient(x, num, den) == IF den = 0 THEN -1 ELSE GfDiv(num, den)
      Magnitude(s2, q, x) ==
        Quotient(x, PolyEval(s2, x), GfMul(x, PolyEval(q, GfMul(x, x))))
      Magnitudes(s2, q) ==
        Bytes([k \in 1..Len(epos) |->
                 Magnitude(s2, q, gfExp[At(epos, k - 1) + 256 - ilen])])
      RECURSIVE CorrectFrom(_, _, _)
      CorrectFrom(out, mag, i) ==
        IF i = Len(epos) THEN out
        ELSE CorrectFrom([out EXCEPT ![At(epos, i) + 1] = BitXor(@, At(mag, i))],
                         mag, i + 1)
      Corrected(mag) ==
        IF \E k \in 1..Len(mag) : mag[k] = -1
        THEN [error |-> TRUE, output |-> input]
        ELSE [error |-> FALSE, output |-> CorrectFrom(input, mag, 0)]
      WithLocator(q) ==
        Corrected(Magnitudes(LastOf(PolyMul(Reversed(SubSeq(s, 1, Len(epos))), q)),
                             HalfOf(q, Len(q) % 2)))
  IN  WithLocator(LocatorFrom(<<1>>, 0))

\* decodeChunk: error is TRUE when it returns a message or throws, FALSE when
\* it returns null; output is what it has left in the output buffer.
DecodeChunk(input) ==
  LET ilen == Len(input)
      NonZero(s) == \E i \in 1..nSym : s[i] # 0
      RECURSIVE ErrorPositionsFrom(_, _, _)
      ErrorPositionsFrom(ep, found, i) ==
        IF i = ilen THEN found
        ELSE ErrorPositionsFrom(ep,
               found \o (IF PolyEval(ep, gfExp[255 - i]) = 0 THEN <<ilen - 1 - i>>
                         ELSE <<>>),
               i + 1)
      Checked(fix) ==
        IF fix.error THEN fix
        ELSE [error |-> NonZero(SyndromesOf(fix.output)), output |-> fix.output]
      WithPositions(s, ep, epos) ==
        IF (Len(ep) - 1) * 2 > nSym \/ Len(epos) # Len(ep) - 1
        THEN [error |-> TRUE, output |-> input]
        ELSE Checked(CorrectErrors(input, epos, s))
      WithLocator(s, ep) == WithPositions(s, ep, ErrorPositionsFrom(ep, <<>>, 0))
      WithSyndromes(s) ==
        IF NonZero(s) THEN WithLocator(s, FindErrors(s))
        ELSE [error |-> FALSE, output |-> input]
  IN  WithSyndromes(SyndromesOf(input))

\* ---------------------------------------------------------------------
\* XXH32.  A 32-bit value is the pair <<high half, low half>> of its 16-bit
\* halves, so that no intermediate result leaves the 32 bits of the code.
\* XXH_PRIME32_1, ..., XXH_PRIME32_5
XXH_PRIMES ==
  << <<40503, 31153>>, <<34283, 51831>>, <<49842, 44605>>, <<10196, 60207>>,
     <<5718, 26545>> >>

\* the 32 bits of a number n with 0 <= n < 2^31
ToWord(n) == <<n \div 65536, n % 65536>>

\* the signed number a 32-bit value stands for
ToInt32(a) == IF a[1] >= 32768 THEN (a[1] - 65536) * 65536 + a[2]
              ELSE a[1] * 65536 + a[2]

\* the 32 bits of a signed number
FromInt32(v) == <<(v \div 65536) % 65536, v % 65536>>

\* (a + b) | 0
Add32(a, b) ==
  <<(a[1] + b[1] + ((a[2] + b[2]) \div 65536)) % 65536, (a[2] + b[2]) % 65536>>

Xor32(a, b) == <<BitXor(a[1], b[1]), BitXor(a[2], b[2])>>

\* Math.imul(a, b); MulHalves is x * y for halves x and y as a 32-bit value
Imul(a, b) ==
  LET Carried(low, t1) ==
        <<((low \div 65536) + (t1 \div 256)) % 65536, low % 65536>>
      Summed(t0, t1) == Carried(t0 + (t1 % 256) * 256, t1)
      MulHalves(x, y) == Summed(x * (y % 256), x * (y \div 256))
      High(ll, lh, hl) == <<(ll[1] + lh[2] + hl[2]) % 65536, ll[2]>>
  IN  High(MulHalves(a[2], b[2]), MulHalves(a[2], b[1]), MulHalves(a[1], b[2]))

\* (a << r) | (a >>> (32 - r)) for 0 < r < 32
Rotl32(a, r) ==
  LET Rotated(h, l, k) ==
        <<((h * 2^k) % 65536) + (l \div 2^(16 - k)),
          ((l * 2^k) % 65536) + (h \div 2^(16 - k))>>
  IN  IF r >= 16 THEN Rotated(a[2], a[1], r - 16) ELSE Rotated(a[1], a[2], r)

\* a >>> r for 0 < r <= 16
Shr32(a, r) == <<a[1] \div 2^r, (a[2] \div 2^r) + (a[1] % 2^r) * 2^(16 - r)>>

XXH32_round(acc, input) ==
  Imul(Rotl32(Add32(acc, Imul(input, XXH_PRIMES[2])), 13), XXH_PRIMES[1])

XXH_PROCESS1(acc, input) ==
  Imul(Rotl32(Add32(acc, Imul(input, XXH_PRIMES[5])), 11), XXH_PRIMES[1])

XXH_PROCESS4(acc, input) ==
  Imul(Rotl32(Add32(acc, Imul(input, XXH_PRIMES[3])), 17), XXH_PRIMES[4])

\* dataView.getInt32(offset, true)
GetInt32LE(dataView, offset) ==
  <<At(dataView, offset + 2) + 256 * At(dataView, offset + 3),
    At(dataView, offset) + 256 * At(dataView, offset + 1)>>

\* The switch of XXH32_finalize: XXH_PROCESS4 on the whole words left, then
\* XXH_PROCESS1 on the bytes left, then XXH32_avalanche.
XXH32_finalize(acc, dataView, offset) ==
  LET RECURSIVE Finalize4(_, _)
      Finalize4(a, o) ==
        IF Len(dataView) - o < 4 THEN a
        ELSE Finalize4(XXH_PROCESS4(a, GetInt32LE(dataView, o)), o + 4)
      RECURSIVE Finalize1(_, _)
      Finalize1(a, o) ==
        IF Len(dataView) - o < 1 THEN a
        ELSE Finalize1(XXH_PROCESS1(a, <<0, At(dataView, o)>>), o + 1)
      Mixed(a, r) == Xor32(a, Shr32(a, r))
  IN  Mixed(Imul(Mixed(Imul(Mixed(
        Finalize1(Finalize4(acc, offset),
                  offset + 4 * ((Len(dataView) - offset) \div 4)),
        15), XXH_PRIMES[2]), 13), XXH_PRIMES[3]), 16)

\* XXH32 of the bytes dataView with a seed 0 <= seed < 2^31, as a signed
\* number; Stripe is one round of the do-while loop on the four lanes.
XXH32(dataView, seed) ==
  LET Stripe(v, offset) ==
        <<XXH32_round(v[1], GetInt32LE(dataView, offset)),
          XXH32_round(v[2], GetInt32LE(dataView, offset + 4)),
          XXH32_round(v[3], GetInt32LE(dataView, offset + 8)),
          XXH32_round(v[4], GetInt32LE(dataView, offset + 12))>>
      RECURSIVE Stripes(_, _)
      Stripes(v, offset) ==
        IF offset + 16 <= Len(dataView) - 16
        THEN Stripes(Stripe(v, offset), offset + 16)
        ELSE Stripe(v, offset)
      Negated(a) == Add32(<<65535 - a[1], 65535 - a[2]>>, <<0, 1>>)
      Lanes(s) ==
        <<Add32(Add32(s, XXH_PRIMES[1]), XXH_PRIMES[2]), Add32(s, XXH_PRIMES[2]),
          s, Add32(s, Negated(XXH_PRIMES[1]))>>
      Converged(v) ==
        Add32(Add32(Add32(Rotl32(v[1], 1), Rotl32(v[2], 7)), Rotl32(v[3], 12)),
              Rotl32(v[4], 18))
      Start(s) ==
        IF Len(dataView) >= 16 THEN Converged(Stripes(Lanes(s), 0))
        ELSE Add32(s, XXH_PRIMES[5])
  IN  ToInt32(XXH32_finalize(Add32(Start(ToWord(seed)), ToWord(Len(dataView))),
                             dataView, 16 * (Len(dataView) \div 16)))

\* ---------------------------------------------------------------------
\* Blocks byte by byte: writeDataBlock and readDataBlock of utils.ts.
XXH_SEED == 1179210568

MAGIC_BYTES == <<102, 105, 115, 104, 116, 114, 97, 112>>

\* msgpack.encode and msgpack.decode on the objects 0..255: a positive fixint
\* is its own byte, a larger value follows the uint 8 marker 204.  Bytes that
\* decode to something else are kept as they are, which is no object written.
MsgpackEncode(obj) == IF obj <= 127 THEN <<obj>> ELSE <<204, obj>>

MsgpackDecode(bytes) ==
  IF Len(bytes) >= 1 /\ bytes[1] <= 127 THEN [thrown |-> FALSE, data |-> bytes[1]]
  ELSE IF Len(bytes) >= 2 /\ bytes[1] = 204 THEN [thrown |-> FALSE, data |-> bytes[2]]
  ELSE IF Len(bytes) >= 1 /\ bytes[1] = 204 THEN [thrown |-> TRUE, data |-> bytes]
  ELSE [thrown |-> FALSE, data |-> bytes]

\* A faulty read of the length field, little-endian
GetUint32LE(b) == ((b[4] * 256 + b[3]) * 256 + b[2]) * 256 + b[1]

\* bufferView.getUint32(0, false)
GetUint32(b) == ((b[1] * 256 + b[2]) * 256 + b[3]) * 256 + b[4]

\* the length field is setUint32 of the payload length, the hash field is
\* setInt32 of the hash, both big-endian and encoded with their parity bytes
writeDataBlock(obj) ==
  LET SetUint32(n) ==
        <<n \div 16777216, (n \div 65536) % 256, (n \div 256) % 256, n % 256>>
      SetInt32(w) == <<w[1] \div 256, w[1] % 256, w[2] \div 256, w[2] % 256>>
      Written(payload) ==
        MAGIC_BYTES
        \o EncodeChunk(SetUint32(Len(payload)))
        \o EncodeChunk(SetInt32(FromInt32(XXH32(payload, XXH_SEED))))
        \o payload
  IN  Written(MsgpackEncode(obj))

\* readDataBlock: ScanAt is one round of its loop at index i, which ends in
\* the block returned or in the index of the next round.
readDataBlock(fileData, offset) ==
  LET MagicMatches(i) ==
        Cardinality({j \in 0..(Len(MAGIC_BYTES) - 1) :
                       i + j < Len(fileData)
                       /\ At(fileData, i + j) = At(MAGIC_BYTES, j)})
      GetInt32(h) == ToInt32(<<h[1] * 256 + h[2], h[3] * 256 + h[4]>>)
      Skip(i, blockLength) == [done |-> FALSE, next |-> i + 23 + blockLength + 1]
      Found(i, blockLength, hasData, obj) ==
        [done |-> TRUE,
         block |-> [offset |-> i, length |-> blockLength + HeaderLength,
                    hasData |-> hasData, data |-> obj]]
      Decoded(i, blockLength, decoded) ==
        IF decoded.thrown THEN Skip(i, blockLength)
        ELSE Found(i, blockLength, TRUE, decoded.data)
      Hashed(i, blockLength, hashField, blockBytes) ==
        IF ~hashField.error /\ XXH32(blockBytes, XXH_SEED) = GetInt32(hashField.output)
        THEN Decoded(i, blockLength, MsgpackDecode(blockBytes))
        ELSE Skip(i, blockLength)
      Measured(i, blockLength) ==
        IF Len(fileData) - i - HeaderLength - blockLength < 0
        THEN Found(i, blockLength, FALSE, 0)
        ELSE IF blockLength > 0
        THEN Hashed(i, blockLength, DecodeChunk(SubSeq(fileData, i + 17, i + 24)),
                    SubSeq(fileData, i + 25, i + 24 + blockLength))
        ELSE Skip(i, blockLength)
      Detected(i, lengthField) ==
        IF lengthField.error THEN [done |-> FALSE, next |-> i + 1]
        ELSE Measured(i, GetUint32(lengthField.output))
      ScanAt(i) ==
        IF MagicMatches(i) < Len(MAGIC_BYTES) - 2
        THEN [done |-> FALSE, next |-> i + 1]
        ELSE Detected(i, DecodeChunk(SubSeq(fileData, i + 9, i + 16)))
      RECURSIVE ScanFrom(_)
      ScanOn(round) == IF round.done THEN round.block ELSE ScanFrom(round.next)
      ScanFrom(i) ==
        IF i < Len(fileData) - HeaderLength THEN ScanOn(ScanAt(i))
        ELSE [offset |-> Len(fileData), length |-> 0, hasData |-> FALSE,
              data |-> 0]
  IN  ScanFrom(offset)

\* The arguments: the object written, the header field altered, the
\* positions at1 <= at2 of the bytes altered in it and the masks xored into
\* them (a mask of zero alters nothing).
BlockArgs ==
  {a \in [kind : {"readDataBlock"}, data : {0, 127, 128, 255},
          field : {"length", "hash"}, at1 : 0..7, at2 : 0..7,
          flip1 : {0, 1, 77, 128, 255}, flip2 : {0, 1, 77, 128, 255}] :
     a.at1 <= a.at2}

AlteredBlock(a) ==
  LET Altered(block, at, flip) ==
        [block EXCEPT ![(IF a.field = "length" THEN 8 ELSE 16) + at + 1] =
                         BitXor(@, flip)]
  IN  Altered(Altered(writeDataBlock(a.data), a.at1, a.flip1), a.at2, a.flip2)

InitBlock ==
  /\ InitState([p \in Procs |-> testConfig])
  /\ GfConstructed
  /\ arg \in BlockArgs
  /\ ret = NoArg

ReadBlockCall ==
  /\ arg.kind = "readDataBlock"
  /\ ret.kind = "none"
  /\ ret' = [kind |-> "readDataBlock"] @@ readDataBlock(AlteredBlock(arg), 0)
  /\ UNCHANGED <<fsVars, memVars, atx, queue, cur, comp, res, cres, writes,
                 ncalls, nopens, committed, closedP, hist, arg, config, timers>>

SpecBlock == InitBlock /\ [][ReadBlockCall]_vars

\* Stacked reconciliation: p1 updates and compacts, p2 updates, follows by
\* rebase checks, closes and reopens.
SpecStacked ==
  Init /\ [][
         \/ CallUpdate("p1", FALSE) /\ queue["p1"] = <<>>
         \/ CallUpdate("p2", FALSE) /\ queue["p2"] = <<>>
         \/ \E p \in Procs : ExecUpdateStart(p)
         \/ \E p \in Procs : ExecUpdateFinish(p)
         \/ \E p \in Procs : ExecRebase(p)
         \/ CompactNext("p1")
         \/ CheckRebase("p2")
         \/ CallClose("p2") /\ queue["p2"] = <<>>
         \/ ExecClose("p2")
         \/ CallOpen("p2")
         \/ ExecOpen("p2")
       ]_vars

\* Compaction with failing scans, reads, merges and writes: p1 compacts,
\* both instances update.
SpecFaults ==
  Init /\ [][
         \/ \E p \in Procs : CallUpdate(p, FALSE) /\ queue[p] = <<>>
         \/ \E p \in Procs : ExecUpdateStart(p)
         \/ \E p \in Procs : ExecUpdateFinish(p)
         \/ CompactScan("p1")
         \/ CompactLock("p1")
         \/ CompactRescan("p1")
         \/ CompactRescanFails("p1")
         \/ CompactDamaged("p1")
         \/ \E bad \in SUBSET comp["p1"].files : CompactMerge("p1", bad)
         \/ CompactMergeFails("p1")
         \/ CompactWrite("p1")
         \/ CompactWriteFails("p1")
         \/ CompactFinish("p1")
         \/ ExecRebase("p1")
       ]_vars

\* One instance alone in the directory that updates, forces compactions
\* between its transactions, closes and reopens.
SpecSoloCompact ==
  Init /\ [][
         \/ /\ CallUpdate("p1", FALSE)
            /\ queue["p1"] = <<>> /\ comp["p1"].pc = "idle" /\ ~closedP["p1"]
         \/ ExecUpdateStart("p1")
         \/ ExecUpdateFinish("p1")
         \/ CompactScan("p1") /\ queue["p1"] = <<>>
         \/ CompactLock("p1")
         \/ CompactRescan("p1")
         \/ CompactMerge("p1", {})
         \/ CompactWrite("p1")
         \/ CompactFinish("p1")
         \/ ExecRebase("p1")
         \/ CallClose("p1") /\ queue["p1"] = <<>> /\ comp["p1"].pc = "idle"
         \/ ExecClose("p1")
         \/ CallOpen("p1")
         \/ ExecOpen("p1")
       ]_vars

\* Rebase checks while a transaction is in flight: one instance updates,
\* forces compactions and forces rebase checks while an updater has not
\* returned yet, so that the rebase of the check is chained behind the
\* transaction and behind the rebase of the compaction.
SpecStale ==
  Init /\ [][\/ CallUpdate("p1", FALSE)
             \/ ExecUpdateStart("p1")
             \/ ExecUpdateFinish("p1")
             \/ CompactNext("p1")
             \/ CheckRebaseUpTo("p1", MaxQueue + 1) /\ cur["p1"] # NoCur
             \/ ExecRebase("p1")]_vars

\* The same beside a peer: P2 updates, P1 updates, compacts what P2 wrote
\* and runs rebase checks while its own updater has not returned yet, so
\* that the rebase after the compaction appends a merge transaction and the
\* rebase of the check follows it.
SpecTwice ==
  Init /\ [][\/ CallUpdate("p2", FALSE) /\ queue["p2"] = <<>>
             \/ CallUpdate("p1", FALSE)
             \/ \E p \in Procs : ExecUpdateStart(p)
             \/ \E p \in Procs : ExecUpdateFinish(p)
             \/ CompactNext("p1")
             \/ CheckRebaseUpTo("p1", MaxQueue + 1) /\ cur["p1"] # NoCur
             \/ ExecRebase("p1")]_vars

\* Failing rebases and appends: P2 updates, P1 updates, reads, compacts what
\* both wrote and checks for snapshots; the merger or appendFile may fail in
\* a rebase of P1, and appendFile in a transaction of P1.
SpecAppendFails ==
  Init /\ [][\/ CallUpdate("p2", FALSE) /\ queue["p2"] = <<>>
             \/ ExecUpdateStart("p2") \/ ExecUpdateFinish("p2")
             \/ CallUpdate("p1", FALSE)
             \/ CallGet("p1")
             \/ ExecUpdateStart("p1") \/ ExecUpdateFinish("p1")
             \/ ExecUpdateFails("p1")
             \/ ExecGet("p1")
             \/ CompactNext("p1")
             \/ CheckRebase("p1")
             \/ ExecRebase("p1")
             \/ ExecRebaseFails("p1", "merger threw")
             \/ ExecRebaseFails("p1", "append failed")]_vars

\* _inspectBaseDirectory by process p, one step per access to the lockfiles
\* of its peers: readdir lists them, stat finds those still there (an entry
\* whose stat fails is skipped), and _verifyLockfile reads each of them with
\* readFile, which throws for a file that is gone.  arg holds the scan in
\* progress, ret whether it returned or threw.
InspectStep(p) ==
  LET present == {locks[i] : i \in 1 .. Len(locks)} IN
    /\ \/ /\ arg.kind = "none"
          /\ arg' = [kind |-> "inspect", pc |-> "listed",
                     files |-> {l \in present : l.uuid # p}]
          /\ UNCHANGED ret
       \/ /\ arg.kind = "inspect" /\ arg.pc = "listed"
          /\ arg' = [arg EXCEPT !.pc = "statted", !.files = @ \cap present]
          /\ UNCHANGED ret
       \/ /\ arg.kind = "inspect" /\ arg.pc = "statted"
          /\ arg' = [arg EXCEPT !.pc = "done"]
          /\ ret' = [kind |-> "inspect", threw |-> ~(arg.files \subseteq present)]
    /\ UNCHANGED <<fsVars, memVars, atx, queue, cur, comp, res, cres, writes,
                   ncalls, nopens, committed, closedP, hist, config, timers>>

\* A scan next to a compacting peer: P1 updates and compacts, P2 scans the
\* directory once.
SpecScan ==
  Init /\ [][\/ CallUpdate("p1", FALSE) /\ queue["p1"] = <<>>
             \/ ExecUpdateStart("p1")
             \/ ExecUpdateFinish("p1")
             \/ CompactNext("p1")
             \/ ExecRebase("p1")
             \/ InspectStep("p2")]_vars

\* _renameBrokenFile on a shard file, one pass of its loop per step.  The
\* first step fixes which suffixes are taken by *.sdbf files in the
\* directory.  A pass stats the name of suffix c and, when the stat throws,
\* tries the rename, which succeeds while the shard still has its name;
\* nothing ends the loop before c reaches its limit.  arg.after counts the
\* stat and rename calls made once a rename has succeeded.
RenameBrokenStep ==
  /\ \/ /\ arg.kind = "none"
        /\ \E taken \in SUBSET (0 .. MaxTaken - 1) :
             arg' = [kind |-> "rename", c |-> 0, taken |-> taken, present |-> TRUE,
                     renames |-> 0, after |-> 0]
     \/ /\ arg.kind = "rename"
        /\ arg.c < MaxProbe
        /\ LET free == arg.c \notin arg.taken
               renamed == free /\ arg.present
               calls == IF free THEN 2 ELSE 1
           IN arg' = [arg EXCEPT
                        !.c = @ + 1,
                        !.taken = IF renamed THEN @ \cup {arg.c} ELSE @,
                        !.present = IF renamed THEN FALSE ELSE @,
                        !.renames = IF renamed THEN @ + 1 ELSE @,
                        !.after = IF arg.renames > 0 THEN @ + calls ELSE @]
  /\ UNCHANGED <<fsVars, memVars, atx, queue, cur, comp, res, cres, writes,
                 ncalls, nopens, committed, closedP, hist, ret, config, timers>>

SpecQuarantine == Init /\ [][RenameBrokenStep]_vars

\* One instance with a small size threshold whose updaters may repeat an
\* earlier change, with its compactions and their rebases.
SpecNoop ==
  InitTimers /\ [][\/ CallUpdate("p1", FALSE)
                   \/ CallUpdateAgain("p1")
                   \/ ExecUpdateStart("p1")
                   \/ ExecUpdateFinish("p1")
                   \/ CompactNext("p1")
                   \/ ExecRebase("p1")]_vars

\* What a crash leaves in the directory of the closed instance p: a snapshot
\* file that ends inside its block, so that _readSnapshot throws on it, or a
\* shard file of p that was created and never written to (size 0).
SpoilFiles(p) ==
  /\ closedP[p] /\ queue[p] = <<>>
  /\ \/ /\ \E g \in DOMAIN snaps :
             /\ <<"app", g>> \notin DOMAIN tails
             /\ tails' = (<<"app", g>> :> HeaderLength) @@ tails
          /\ UNCHANGED shards
     \/ /\ <<p, generation[p]>> \notin DOMAIN shards
        /\ shards' = (<<p, generation[p]>> :> <<>>) @@ shards
        /\ UNCHANGED tails
  /\ UNCHANGED <<arg, ret, config, timers, snaps, locks, quar, memVars, atx, queue,
                 cur, comp, res, cres, writes, ncalls, nopens, committed, closedP, hist>>

\* One instance that updates, compacts, closes and opens again, and a second
\* one that compacts, so that a reopened instance finds locked snapshots too;
\* files are spoilt while the first instance is closed, and compactions run
\* only while every snapshot file is whole.
SpecReopen ==
  Init /\ [][\/ CallUpdate("p1", FALSE) /\ queue["p1"] = <<>>
             \/ ExecUpdateStart("p1") \/ ExecUpdateFinish("p1")
             \/ \E p \in Procs : CompactNext(p) /\ DOMAIN tails = {}
             \/ \E p \in Procs : ExecRebase(p)
             \/ CallClose("p1") /\ queue["p1"] = <<>>
             \/ ExecClose("p1")
             \/ SpoilFiles("p1")
             \/ CallOpen("p1")
             \/ ExecOpen("p1")]_vars

----------------------------------------------------------------------------
\* Properties.

\* The value a shard file replays to over the snapshot it targets.
ShardView(n) ==
  Replay(0, IF n[2] = 0 THEN InitialData ELSE snaps[n[2]].data,
         SortSeq(shards[n], LAMBDA a, b : a.sequence < b.sequence)).data

\* A change can be recovered from the files: a snapshot holds it, or the
\* replay of a shard over its existing target snapshot holds it.
Recoverable(c) ==
  \/ \E g \in DOMAIN snaps : c \in snaps[g].data
  \/ \E n \in DOMAIN shards :
       /\ n[2] = 0 \/ n[2] \in DOMAIN snaps
       /\ c \in ShardView(n)

\* C1: no committed transaction is ever lost: every change a successful
\* update() appended stays recoverable from the files on disk in every later
\* state.
C1_NoCommittedLost ==
  \A p \in Procs : \A c \in committed[p] : Recoverable(c)

\* C2: two processes start from the same base snapshot and make disjoint
\* changes; after the compaction of one and the rebase of each onto the new
\* snapshot, the value of each contains the changes of both: the snapshot
\* holds the changes of every shard the compaction read, and the rebased
\* value holds the snapshot's data and the changes of the own shard.
C2_BothChangesAfterRebase ==
  /\ \A p \in Procs : hist[p].expect \subseteq data[p]
  /\ \A p \in Procs :
       comp[p].pc \in {"merged", "written"} =>
         \A u \in DOMAIN comp[p].read :
           ShardChanges(comp[p].read[u]) \subseteq comp[p].snap.data

W2_BothChangesAfterRebase ==
  \A p \in Procs :
    /\ generation[p] = 1
    /\ {<<"p1", 1>>, <<"p2", 1>>} \subseteq hist[p].expect
    /\ {<<"p1", 1>>, <<"p2", 1>>} \subseteq data[p]

C5_ClosedRejects ==
  \A p \in Procs :
    res[p].cp /\ res[p].op \in {"get", "update"} => res[p].out = "closed"

\* C6: stacked reconciliation: the transaction P2 appended at its generation
\* before it closed is in the value P2 has after it reopened, together with
\* the data of the snapshot P2 reopened at.
C6_StackedReconciliation ==
  LET h == hist["p2"] IN
    h.reopened /\ h.closeTx.valid =>
      /\ h.closeTx.chg \in data["p2"]
      /\ generation["p2"] \in DOMAIN snaps =>
           snaps[generation["p2"]].data \subseteq data["p2"]

\* C7: an attempt that wrote its lockfile and ended without publishing the
\* snapshot has deleted the lockfile when it returns.
C7_LockReleased ==
  \A p \in Procs : cres[p].out # "ok" => ~cres[p].lockLeft

\* The highest sequence number among transactions.
MaxSequence(txs) == Max({txs[i].sequence : i \in 1 .. Len(txs)})

\* C8: the ancestors map of a compacted snapshot has exactly one entry per
\* shard of the base generation that could be read, the highest sequence
\* number read from that shard; unreadable shards have no entry.
C8_AncestorsMap ==
  \A p \in Procs :
    comp[p].pc \in {"merged", "written"} =>
      /\ comp[p].snap.ancestors =
           [u \in DOMAIN comp[p].read |-> MaxSequence(comp[p].read[u])]
      /\ comp[p].pc = "written" /\ comp[p].gen \in DOMAIN snaps =>
           snaps[comp[p].gen].ancestors = comp[p].snap.ancestors

W8_AncestorsOfReadable ==
  /\ comp["p1"].pc = "written"
  /\ Cardinality(comp["p1"].files) = 2
  /\ DOMAIN snaps[comp["p1"].gen].ancestors = {"p1"}
  /\ snaps[comp["p1"].gen].ancestors["p1"] = 2

C10_UpdaterThrows ==
  \A p \in Procs :
    /\ hist[p].thrown.valid =>
         /\ res[p].op = "update" /\ res[p].out = "thrown"
         /\ generation[p] = hist[p].thrown.generation
         /\ sequence[p] = hist[p].thrown.sequence
         /\ data[p] = hist[p].thrown.data
         /\ ShardOf(p, generation[p]) = hist[p].thrown.shard
         /\ atx[p] = "ok"
    /\ ~res[p].cp /\ res[p].op = "get" => res[p].out = "ok"
    /\ ~res[p].cp /\ res[p].op = "update" => res[p].out \in {"ok", "thrown"}

W10_ThrownAfterCommit ==
  /\ hist["p1"].thrown.valid
  /\ hist["p1"].thrown.sequence = 1
  /\ data["p1"] = {<<"p1", 1>>}

\* C11: single-process compaction: once the forced compaction of generation 1
\* has succeeded and the queue has drained, the only snapshot file is that of
\* generation 1, the shard of generation 0 and the lockfile are gone, the
\* value is the one all committed updates produced, and close() followed by
\* open() preserves the value.
C11_SingleProcessCompaction ==
  LET p == "p1" IN
    /\ ( /\ cres[p].out = "ok" /\ cres[p].gen = 1
         /\ queue[p] = <<>> /\ cur[p] = NoCur
         /\ comp[p].pc = "idle" /\ atx[p] = "ok" ) =>
           /\ DOMAIN snaps = {1}
           /\ <<p, 0>> \notin DOMAIN shards
           /\ locks = <<>>
           /\ generation[p] = 1
           /\ data[p] = committed[p]
    /\ ( /\ hist[p].reopened /\ hist[p].preClose.valid
         /\ 1 \in DOMAIN snaps ) => data[p] = hist[p].preClose.val

W11_CompactedAndReopened ==
  /\ cres["p1"].out = "ok" /\ cres["p1"].gen = 1
  /\ hist["p1"].reopened /\ hist["p1"].preClose.valid
  /\ res["p1"].op = "open"
  /\ generation["p1"] = 1
  /\ Cardinality(data["p1"]) = 2
  /\ DOMAIN snaps = {1}

\* C15: an open() that follows a close() has re-run the open procedure when
\* it resolves, also when get() or update() calls were rejected in between.
C15_OpenRerunsOpen ==
  \A p \in Procs : res[p].op = "open" => hist[p].reopened

\* C16: while the instance is closed a forceCompaction() has no effect: no
\* lockfile of the instance is written.
C16_ClosedForceNoEffect ==
  \A p \in Procs :
    closedP[p] => ~\E i \in 1 .. Len(locks) : locks[i].uuid = p

C17_NoTimerWhileClosed ==
  \A p \in Procs :
    closedP[p] => /\ timers[p].compaction = "none"
                  /\ ~timers[p].check
                  /\ ~timers[p].strayCompaction
                  /\ ~timers[p].strayCheck

\* C19: an instance configured with compactionIntervalMinutes = 0 never has
\* an interval compaction timer waiting, and one configured with
\* checkIntervalMinutes = 0 never has a check timer waiting.
C19_ZeroDisablesTimers ==
  \A p \in Procs :
    /\ config[p].compactionIntervalMinutes = 0 => timers[p].compaction # "interval"
    /\ config[p].checkIntervalMinutes = 0 => ~timers[p].check

\* C13: reading a shard that was cut at a byte boundary returns, and the
\* transactions it returns are those of the blocks that are complete in the
\* prefix, in sequence order.
C13_PrefixReadsInitialRun ==
  ret.kind = "readShard" =>
    /\ ret.ok
    /\ ret.transactions = SubSeq(arg.written, 1, arg.cut \div BlockLength)

\* C12: after the last block of the own shard was cut off behind at least
\* one intact transaction, the reopened instance holds the changes of all
\* transactions but the cut one, its shard file ends with the last good
\* block and holds the intact transactions followed by those appended since,
\* and this also holds after a further close() and open().
C12_TailRecovery ==
  LET p == "p1"
      name == <<p, 0>>
      c == hist[p].cut
  IN ( /\ c.valid /\ Len(c.kept) >= 1
       /\ ~closedP[p] /\ queue[p] = <<>> /\ cur[p] = NoCur ) =>
         /\ data[p] = committed[p] \ c.chg
         /\ name \notin DOMAIN tails
         /\ name \in DOMAIN shards
         /\ SubSeq(shards[name], 1, Len(c.kept)) = c.kept
         /\ ShardChanges(shards[name]) = committed[p] \ c.chg
         /\ shardSize[p] = Len(shards[name])

\* C12 witness: two updates, close, the second block cut, open, a third
\* update, and a second close() and open(): the value holds the first and
\* the third change.
W12_ReopenedTwiceAfterCut ==
  /\ hist["p1"].cut.valid /\ Len(hist["p1"].cut.kept) = 1
  /\ nopens["p1"] = 2 /\ hist["p1"].reopened /\ res["p1"].op = "open"
  /\ data["p1"] = {<<"p1", 1>>, <<"p1", 3>>}

\* All instances are at the same generation and hold the same value, which
\* contains every change an update() committed.
Consistent ==
  \A p, q \in Procs :
    /\ generation[p] = generation[q]
    /\ data[p] = data[q]
    /\ committed[q] \subseteq data[p]

\* A shard waits for a compaction beyond the MaxGen generations of the model.
OutOfGenerations == \E n \in DOMAIN shards : n[2] >= MaxGen

\* C14: with every instance attempting compactions and rebase checks for
\* ever, from some point on the instances are consistent (or a shard waits
\* for a compaction the model has no generation for).
C14_EventualConsistency == <>[](OutOfGenerations \/ Consistent)

\* C20: a block written by writeDataBlock and read back at offset 0 yields
\* the object written; when at most two bytes of its length field or of its
\* hash field were altered the read yields the object written or no data,
\* never another object.
C20_BlockRoundTrip ==
  ret.kind = "readDataBlock" =>
    /\ ret.hasData => ret.data = arg.data
    /\ arg.flip1 = 0 /\ arg.flip2 = 0 => ret.hasData /\ ret.offset = 0

\* C20 witness: two different bytes of a header field were altered and the
\* read has returned the object written.
W20_TwoBytesAlteredAndRead ==
  /\ ret.kind = "readDataBlock"
  /\ arg.flip1 # 0 /\ arg.flip2 # 0 /\ arg.at1 # arg.at2
  /\ ret.hasData /\ ret.data = arg.data

\* C21: snapshots are write-once: over any execution the snapshot file of a
\* generation is written at most once, also after a damaged snapshot was
\* unlinked and after garbage collection.
C21_SnapshotWriteOnce ==
  \A g \in DOMAIN writes : writes[g] <= 1

\* C22: the lockfile a process wrote for a compaction stays in the directory
\* until that compaction attempt ends: while the attempt is between its
\* lockfile write and its end, no open and no rebase check has removed it.
C22_LockfileKept ==
  \A p \in Procs :
    comp[p].pc \in {"locked"} \cup MergePcs =>
      \E i \in 1 .. Len(locks) :
        locks[i] = [uuid |-> p, generation |-> comp[p].gen]

\* C23: fast-path soundness: when a rebase that leaves the queue takes the
\* fast path (the snapshot is of the next generation and its ancestor entry
\* for the own shard equals the own sequence number), the snapshot's data
\* holds every change the process committed.
C23_FastPathSound ==
  \A p \in Procs :
    HeadIs(p, {"rebase", "crebase"}) =>
      LET it == Head(queue[p])
          runs == it.type = "rebase" \/ generation[p] = it.base.generation
          fast == /\ it.snapshot.generation = generation[p] + 1
                  /\ p \in DOMAIN it.snapshot.ancestors
                  /\ it.snapshot.ancestors[p] = sequence[p]
      IN runs /\ fast => committed[p] \subseteq it.snapshot.data

\* C24: every rebase that runs when it leaves the queue has as base the
\* snapshot of the generation the process is at (the initial snapshot at
\* generation 0) and as target a snapshot of a strictly higher generation; a
\* rebase whose base does not match the generation any more does not run.
C24_RebaseBaseIsCurrent ==
  \A p \in Procs :
    HeadIs(p, {"rebase", "crebase"}) =>
      LET it == Head(queue[p])
          runs == it.type = "rebase" \/ generation[p] = it.base.generation
      IN runs => /\ it.base.generation = generation[p]
                 /\ it.snapshot.generation > generation[p]

C28_ScanTolerates ==
  ret.kind = "inspect" => ~ret.threw

\* C27: open() succeeds whatever snapshot files are damaged, and the instance
\* then stands on the newest snapshot that is neither locked nor damaged (the
\* initial snapshot when there is none).
C27_OpenSkipsDamaged ==
  [][\A p \in Procs :
       HeadIs(p, {"open"}) /\ atx[p] # "ok" /\ ExecOpen(p) =>
         /\ res'[p].out = "ok"
         /\ generation'[p] =
              Max({0} \cup {g \in DOMAIN snaps' :
                              /\ FirstLockAt(locks', g) = None
                              /\ <<"app", g>> \notin DOMAIN tails'})]_vars

\* C30: once open() has succeeded, no shard file of the instance with size 0
\* is left in the directory.
C30_EmptyShardsDeleted ==
  \A p \in Procs :
    res[p].op = "open" /\ res[p].out = "ok" =>
      ~\E n \in DOMAIN shards : n[1] = p /\ FileLength(FileOf(World(p), n)) = 0

\* C31: moving a broken shard aside renames it once, to the first free
\* suffix, and makes no stat or rename call after the rename that succeeded.
C31_RenameStopsAtFirst ==
  arg.kind = "rename" =>
    /\ arg.renames <= 1
    /\ arg.after = 0
    /\ arg.renames = 1 =>
         \A c \in 0 .. arg.c - 1 : c \in arg.taken

\* C32: a waiting rebase check timer was set with the delay of
\* checkIntervalMinutes, by open and by the end of a rebase check alike.
C32_CheckDelay ==
  \A p \in Procs :
    timers[p].check => timers[p].checkDelay = CheckIntervalMinutes(p) * MsPerMinute

\* C33: an update() whose updater produces an empty patch changes nothing:
\* the sequence number, the shard files, the shard size, the timers and the
\* value stay as they are, and the call resolves with the current value.
C33_EmptyPatchNoEffect ==
  [][\A p \in Procs :
       (cur[p] # NoCur /\ ExecUpdateFinish(p)) =>
         (PatchEmpty(Patches(cur[p].base, Updater(p, cur[p].n, cur[p].base))) =>
            /\ UNCHANGED <<fsVars, memVars, timers>>
            /\ res'[p] = [op |-> "update", out |-> "ok", cp |-> FALSE]
            /\ hist'[p].prevUpd = [valid |-> TRUE, val |-> data[p]])
    ]_vars

\* C33 witness: the second update() of P1 repeated the change of the first
\* and has resolved; one transaction is in the shard.
W33_RepeatedChangeResolved ==
  /\ ncalls["p1"] = 2 /\ committed["p1"] = {<<"p1", 1>>}
  /\ queue["p1"] = <<>> /\ cur["p1"] = NoCur
  /\ res["p1"] = [op |-> "update", out |-> "ok", cp |-> FALSE]
  /\ sequence["p1"] = 1 /\ data["p1"] = {<<"p1", 1>>}
  /\ generation["p1"] = 0 /\ Len(ShardOf("p1", 0)) = 1

\* C34: whenever the queue of a process is idle, the replay of its own shard
\* of the generation it is at over the snapshot of that generation is the
\* value get() returns.
C34_MemoryEqualsDurable ==
  \A p \in Procs :
    ( /\ queue[p] = <<>> /\ cur[p] = NoCur /\ ~closedP[p]
      /\ generation[p] = 0 \/ generation[p] \in DOMAIN snaps ) =>
        data[p] = Replay(0, IF generation[p] = 0 THEN InitialData
                            ELSE snaps[generation[p]].data,
                         ShardOf(p, generation[p])).data

\* C35: no process is stranded on a deleted snapshot: the snapshot file of
\* the generation an open process is at exists, also while the process has
\* no shard file of that generation.
C35_BaseSnapshotExists ==
  \A p \in Procs :
    ~closedP[p] /\ generation[p] > 0 => generation[p] \in DOMAIN snaps

\* C36: a rebase that leaves the queue never unlinks the shard file the
\* process has at the generation it is at after the rebase, and a rebase
\* that does not change the generation does not reset the shard size.
C36_OwnShardKept ==
  [][\A p \in Procs :
       (HeadIs(p, {"rebase", "crebase"}) /\ ExecRebase(p)) =>
         /\ <<p, generation'[p]>> \in DOMAIN shards =>
              <<p, generation'[p]>> \in DOMAIN shards'
         /\ generation'[p] = generation[p] => shardSize'[p] = shardSize[p]
    ]_vars

\* C37: the generation of a process never decreases in a step before and
\* after which the snapshot file of the generation it was at is on disk and
\* whole.
C37_GenerationMonotonic ==
  [][\A p \in Procs :
       ( \/ generation[p] = 0
         \/ /\ generation[p] \in DOMAIN snaps \cap DOMAIN snaps'
            /\ <<"app", generation[p]>> \notin DOMAIN tails \cup DOMAIN tails' ) =>
           generation'[p] >= generation[p]
    ]_vars

\* C38: a rebase chained by a rebase check or by a finished compaction that
\* fails leaves the queue usable: no later get() or update() of the instance
\* rejects with the failure of the rebase.
C38_RebaseFailureContained ==
  \A p \in Procs :
    res[p].op \in {"get", "update"} =>
      res[p].out \notin {"merger threw", "append failed"}

\* C39: when appendFile fails, in the transaction of an update() or for the
\* merge transaction of a rebase, the generation, the sequence number, the
\* shard size and the value of the instance are what they were before.
C39_FailedAppendNoEffect ==
  [][\A p \in Procs :
       ( \/ cur[p] # NoCur /\ ExecUpdateFails(p)
         \/ HeadIs(p, {"rebase", "crebase"}) /\ ExecRebaseFails(p, "append failed") ) =>
           /\ generation'[p] = generation[p]
           /\ sequence'[p] = sequence[p]
           /\ shardSize'[p] = shardSize[p]
           /\ data'[p] = data[p]
    ]_vars

\* C40: the transactions a shard read returns are a prefix of the
\* transactions that were appended to the shard, also when a block in the
\* middle of the file is damaged and later blocks are intact.
C40_ReadReturnsPrefix ==
  ret.kind = "readShard" /\ ret.ok =>
    \E n \in 0 .. Len(arg.written) :
      ret.transactions = SubSeq(arg.written, 1, n)

====
